---- MODULE Spec2Model ----
(***************************************************************************)
(* Clipboard/audio synchronisation: the hub (linux_listener.py, class       *)
(* ClipboardServer) and the sync peer (windows.py, classes ClipboardHandler *)
(* and UnifiedClient).                                                      *)
(*                                                                          *)
(* The specifications of this module share one initial state; each leaves   *)
(* the variables of the others unchanged:                                   *)
(*   Spec          the hub: acceptor, one handler thread per peer, the      *)
(*                 broadcast relay, stop()                                  *)
(*   SpecClient    the peer: change detector and the clipboard sync loop    *)
(*   SpecChunk     the peer: file processing, chunked send and receive      *)
(*   SpecConn      the peer: connection supervision (SpecConnFair with      *)
(*                 fair threads)                                            *)
(*   SpecKeepAlive the peer: keep-alive timing of the sync loop             *)
(*   SpecFrame     framing of messages on both ends                         *)
(*   SpecRelay     dispatch by message variant, hub and peer                *)
(*   SpecWire      the hub threads' writes to one peer's socket             *)
(*   SpecAudio     the hub's audio relay                                    *)
(*   SpecBatch     the peer: the size limits of a batch of files            *)
(*   SpecMixed     the peer: SpecChunk with messages of other kinds arriving *)
(***************************************************************************)
EXTENDS Integers, Sequences, FiniteSets, TLC

(***************************************************************************)
(* Bounds of the model                                                      *)
(***************************************************************************)
\* peers (sockets) that may connect to the hub
NumPeers == 2
\* lines the peers send to the hub in one behaviour
MaxSends == 1
\* changes of the hub's local clipboard made by its user in one behaviour
MaxCopies == 1
\* the hub's clock, in tenths of a second, stops at MaxTime
MaxTime == 6
\* one step of the hub's clock, in tenths of a second
TickStep == 6

\* ClipboardServer.update_threshold (0.5 s), in tenths of a second
update_threshold == 5

Peers == 1..NumPeers
\* "no socket": skip_client=None
NoPeer == 0

(***************************************************************************)
(* Text values.  A string is a sequence of characters; None and a string    *)
(* are kept apart by the "some" field so that Python's `x != y` and         *)
(* truthiness can be computed.                                              *)
(***************************************************************************)
None == [some |-> FALSE, s |-> <<>>]
Str(s) == [some |-> TRUE, s |-> s]
\* bool(x) of an Optional[str]: None and "" are falsy
Truthy(x) == x.some /\ x.s # <<>>

IsSpace(c) == c = " "

RECURSIVE LStrip(_)
LStrip(s) == IF s # <<>> /\ IsSpace(Head(s)) THEN LStrip(Tail(s)) ELSE s

RECURSIVE RStrip(_)
RStrip(s) ==
    IF s # <<>> /\ IsSpace(s[Len(s)]) THEN RStrip(SubSeq(s, 1, Len(s) - 1)) ELSE s

\* str.strip()
Strip(s) == RStrip(LStrip(s))

\* the texts peers put in the "content" field of a line
PeerTexts == { <<"a">> }
\* the texts the hub's user copies
LocalTexts == { <<"c", " ">> }

\* the lines a peer writes: JSON objects with "type" and "content"
\* ("file" lines also carry "filename")
Lines ==
    [type : {"text"}, content : PeerTexts, filename : {<<>>}]
      \cup [type : {"file"}, content : {<<"Q">>}, filename : {<<"f">>}]


(***************************************************************************)
(* The hub: ClipboardServer                                                 *)
(***************************************************************************)
VARIABLES
    running,               \* ClipboardServer.running
    clients,               \* ClipboardServer.clients, guarded by clients_lock
    closed,                \* sockets on which the hub has called close()
    last_update,           \* ClipboardServer.last_update (shared, no lock)
    now,                   \* time.time(), in tenths of a second
    xclip,                 \* the X clipboard xsel reads and writes
    xorigin,               \* history: who wrote xclip last (NoPeer: the user), from what line type
    apc,                   \* the acceptor thread's position
    hpc,                   \* each handler thread's position
    last_monitor_content,  \* handle_client's local of that name, per handler
    hcur,                  \* handle_client's `current`, with the writer it read
    hnow,                  \* handle_client's `now`
    buffer,                \* the complete lines handle_client has split off
    inbox,                 \* lines a peer has written that recv has not returned
    peerGone,              \* the peer has closed its end
    sends,                 \* lines written by peers so far
    copies,                \* local clipboard changes so far
    lastCall,              \* history: the latest broadcast_to_clients call
    lastAck                \* history: the latest "OK\n" of line 265: to whom, for whose line

hubVars == <<running, clients, closed, last_update, now, xclip, xorigin, apc,
             hpc, last_monitor_content, hcur, hnow, buffer, inbox, peerGone,
             sends, copies, lastCall, lastAck>>

\* The peer (SpecClient)
VARIABLES
    last_hash,      \* ClipboardHandler.last_hash
    winclip,        \* the Windows clipboard: its format and what it holds
    cpc,            \* start_clipboard_sync's position
    ucopies,        \* clipboard changes by the peer's user so far
    inbound,        \* messages received so far
    calls,          \* history: the latest two is_new_content calls
    applied,        \* history: content set_clipboard_content has just written
    lastPoll,       \* history: the latest poll of the sync loop
    streak          \* history: the run of consecutive polls reading one text

clientVars == <<last_hash, winclip, cpc, ucopies, inbound, calls, applied,
                lastPoll, streak>>

\* One file through the chunked transfer (SpecChunk)
VARIABLES
    fileBytes,      \* the bytes of the file on the sender's disk
    fpc,            \* the send path's position
    file_info,      \* the entry _process_files built for the file
    ci,             \* the chunk loop's `i`
    wire,           \* messages written by the sender, not yet read
    sentLog,        \* history: every message the send path has written
    rpc,            \* the receive path's position
    rinfo,          \* the file_info message the receiver is serving
    file_data,      \* the receiver's list of chunks
    written,        \* what _set_file_content wrote to disk
    rxTimedOut,     \* history: a read of the chunk loop has timed out
    taken,          \* history: the `name` of each chunk in file_data
    foreign,        \* chunk messages of another peer's transfer relayed so far
    progress        \* the TransferProgress objects: total_size, current_size

chunkVars == <<fileBytes, fpc, file_info, ci, wire, sentLog, rpc, rinfo,
               file_data, written, rxTimedOut, taken, foreign, progress>>

\* The client's connection loops (start_clipboard_sync, start_audio_sync), the
\* two threads of an audio connection and the hub's audio acceptor
VARIABLES
    duty,           \* the loop followed: "clipboard" or "audio"
    client_running, \* UnifiedClient.running
    spc,            \* the loop's position
    link,           \* the loop's socket and what the peer has done to it
    rth,            \* the position of receive_audio
    sth,            \* the position of send_audio
    hist,           \* history: failures in a row, time waited, time since the
                    \* last connection ended
    audio_running,  \* AudioServer.running
    acc             \* the position of AudioServer.accept_clients

connVars == <<duty, client_running, spc, link, rth, sth, hist, audio_running, acc>>

\* The inner loop of start_clipboard_sync on an established connection, with
\* time in tenths of a second
VARIABLES
    kpc,            \* the loop's position
    know,           \* time.time()
    last_keep_alive,\* the local of that name
    transfers       \* history: file-sets sent and chunked files received

kaVars == <<kpc, know, last_keep_alive, transfers>>

\* Framing: one sender, the bytes on their way, and one receiver
VARIABLES
    fdir,           \* who sends to whom: "c2h", "h2c", or "c2c" for a sender
                    \* that writes the client's frames to a client
    fsent,          \* history: the messages the sender has encoded
    pending,        \* characters written that have not arrived yet
    stream,         \* characters that have arrived and are not read yet
    rxpc,           \* the receiver's position
    header,         \* _receive_data_with_progress: the local `header`
    fdata,          \* _receive_data_with_progress: the local `data`
    remaining,      \* _receive_data_with_progress: the local `remaining`
    hbuffer,        \* handle_client: the local `buffer`
    returned,       \* history: the messages the receiver has decoded
    ftimeouts       \* history: reads that timed out inside a frame

frameVars == <<fdir, fsent, pending, stream, rxpc, header, fdata, remaining,
               hbuffer, returned, ftimeouts>>

\* The peer's dispatch of one inbound message (lines 586-624)
VARIABLES
    dconn,          \* the clipboard connection: "connected" or "dropped"
    dispatched,     \* messages dispatched so far
    dlog            \* history: the latest message dispatched and what was done

dispVars == <<dconn, dispatched, dlog>>

\* The writes of the hub's threads to one peer's socket
VARIABLES
    wlock,          \* who holds clients_lock: "free" or a thread
    wpc,            \* each thread's position
    wrest,          \* each thread's sendall: the bytes not sent yet
    wbytes,         \* the bytes on the wire to the peer, in order
    wcount          \* sendall calls made so far

wireVars == <<wlock, wpc, wrest, wbytes, wcount>>

\* The hub's audio relay (AudioServer)
VARIABLES
    arunning,       \* AudioServer.running
    areg,           \* AudioServer.clients, a list
    aclosed,        \* sockets on which the hub has called close()
    abroken,        \* sockets whose peer has gone
    aseen,          \* sockets accept() has returned
    astats,         \* ServerStats.audio_clients
    accpc,          \* the acceptor thread's position
    acclen,         \* the acceptor's len(self.clients), evaluated
    stpc,           \* the streamer thread's position
    sframe,         \* frames captured so far
    sidx,           \* the position of `for client in self.clients`
    sdead,          \* stream_audio's dead_clients
    slen,           \* the streamer's len(self.clients), evaluated
    shist,          \* history: the latest frame, the registry when it was
                    \* captured, who was written to, whose write failed, and
                    \* who had been removed before
    sgone           \* history: the peers the streamer has removed and closed

audioVars == <<arunning, areg, aclosed, abroken, aseen, astats, accpc, acclen,
               stpc, sframe, sidx, sdead, slen, shist, sgone>>

\* The first pass of ClipboardHandler._process_files over one batch
VARIABLES
    bpc,              \* _process_files' position: "idle", "first", "second", "done"
    bfiles,           \* the files of `files` the first loop has taken so far
    total_size,       \* _process_files' local of that name
    processed_files,  \* _process_files' local of that name
    skipped_files,    \* _process_files' local of that name: the reasons
    result_files,     \* _process_files' local of that name
    brest             \* the files of `files` the first loop has not reached

batchVars == <<bpc, bfiles, total_size, processed_files, skipped_files, result_files,
               brest>>

\* What the peers have been sent of the latest change of the hub's clipboard
VARIABLES
    localSent       \* history: per peer, the text lines written to it by the
                    \* watch of handle_client since the hub's user last copied

watchVars == <<localSent>>

\* What became of the frames the peer reads while it receives a file
VARIABLES
    others,         \* messages of other kinds that have reached the peer
    handled,        \* history: the kinds the sync loop has dispatched
    dropped         \* history: the kinds the chunk loop has read and left

dropVars == <<others, handled, dropped>>

tailVars == <<batchVars, watchVars, dropVars>>

\* everything but the hub and watchVars
hubOther == <<clientVars, chunkVars, connVars, kaVars, frameVars, dispVars,
              wireVars, audioVars, batchVars, dropVars>>

\* everything that follows the chunked transfer but dropVars
chunkOther == <<connVars, kaVars, frameVars, dispVars, wireVars, audioVars,
                batchVars, watchVars>>

newVars == <<dispVars, wireVars, audioVars, tailVars>>

\* the variables of the parts of the program that follow the chunked transfer
laterVars == <<connVars, kaVars, frameVars, newVars>>

ByUser == [peer |-> NoPeer, type |-> ""]
NoCur == [text |-> None, origin |-> ByUser]
NoLine == [type |-> "", content |-> <<>>, filename |-> <<>>]
NoCall == [made |-> FALSE, data |-> NoLine, skip |-> NoPeer, origin |-> ByUser,
           reg |-> {}, writes |-> <<>>, disconnected |-> {}]
NoAck == [to |-> NoPeer, sender |-> NoPeer]

\* a line that is not JSON, and a JSON value that is not an object
NotJson == [raw |-> "x"]
NotObject == [value |-> 5]

IsJson(line) == "raw" \notin DOMAIN line
IsObject(line) == IsJson(line) /\ "value" \notin DOMAIN line

\* data.get(key, default)
Get(data, key, default) == IF key \in DOMAIN data THEN data[key] ELSE default

\* json.dumps(data): the keys the object has, with their values
dumps(data) ==
    <<"{", Get(data, "type", "-"), Get(data, "content", <<"-">>),
      Get(data, "filename", <<"-">>), "}">>

\* lines 252-272 for one line: json.loads raises JSONDecodeError (line 269);
\* data.get on a value that is no object, data["filename"] or data["content"]
\* of a file line without the key raise and line 271 catches; a file line is
\* written to the sync directory; every other object goes to the clipboard
\* and to the other peers
LineOutcome(data) ==
    IF ~IsJson(data) THEN "json_error"
    ELSE IF ~IsObject(data) THEN "error"
    ELSE IF Get(data, "type", "") = "file"
    THEN IF "filename" \in DOMAIN data /\ "content" \in DOMAIN data
         THEN "file" ELSE "error"
    ELSE "other"

\* get_clipboard(): xsel's output, stripped; None when it is empty
get_clipboard == IF xclip # <<>> THEN Str(Strip(xclip)) ELSE None

\* the order in which `for client in self.clients` visits the set
RECURSIVE IterOrder(_)
IterOrder(S) ==
    IF S = {} THEN <<>>
    ELSE LET c == CHOOSE x \in S : \A y \in S : x <= y
         IN  <<c>> \o IterOrder(S \ {c})

\* What a send to socket q may do during a broadcast: both sendall calls pass,
\* the first raises, or the second raises.  A socket the hub has closed raises
\* on the first.
SendOutcomes(q) ==
    IF q \in closed THEN {"failLine"} ELSE {"ok", "failLine", "failAck"}

\* The loop of broadcast_to_clients over `order` (lines 190-199): the writes it
\* makes, in order, and the set `disconnected` it collects.
RECURSIVE BroadcastLoop(_, _, _, _)
BroadcastLoop(order, json_str, skip_client, out) ==
    IF order = <<>> THEN [writes |-> <<>>, disconnected |-> {}]
    ELSE LET client == Head(order)
             rest == BroadcastLoop(Tail(order), json_str, skip_client, out)
             message == [to |-> client, kind |-> "line", body |-> json_str]
             ok == [to |-> client, kind |-> "ok", body |-> <<>>]
         IN  IF client = skip_client THEN rest
             ELSE IF out[client] = "ok"
                  THEN [rest EXCEPT !.writes = <<message, ok>> \o @]
             ELSE IF out[client] = "failAck"
                  THEN [writes |-> <<message>> \o rest.writes,
                        disconnected |-> rest.disconnected \cup {client}]
             ELSE [rest EXCEPT !.disconnected = @ \cup {client}]

\* a loop that gives up at the first failed send
RECURSIVE BroadcastLoopStopsAtFailure(_, _, _, _)
BroadcastLoopStopsAtFailure(order, json_str, skip_client, out) ==
    IF order = <<>> THEN [writes |-> <<>>, disconnected |-> {}]
    ELSE LET client == Head(order)
             rest == BroadcastLoopStopsAtFailure(Tail(order), json_str, skip_client, out)
             message == [to |-> client, kind |-> "line", body |-> json_str]
             ok == [to |-> client, kind |-> "ok", body |-> <<>>]
         IN  IF client = skip_client THEN rest
             ELSE IF out[client] = "ok"
                  THEN [rest EXCEPT !.writes = <<message, ok>> \o @]
             ELSE [writes |-> <<>>, disconnected |-> {client}]

\* broadcast_to_clients without the `client == skip_client` test
broadcast_no_skip(data, skip_client, out) ==
    BroadcastLoop(IterOrder(clients), dumps(data), NoPeer, out)

\* broadcast_to_clients leaving the loop at the first failed send
broadcast_stops_at_failure(data, skip_client, out) ==
    BroadcastLoopStopsAtFailure(IterOrder(clients), dumps(data), skip_client, out)

\* broadcast_to_clients(data, skip_client): the result of the call when the
\* sends behave as `out` says
broadcast_to_clients(data, skip_client, out) ==
    BroadcastLoop(IterOrder(clients), dumps(data), skip_client, out)

\* the history localSent counts up to MaxCounted
MaxCounted == 2
Min2(a, b) == IF a < b THEN a ELSE b

\* sendall(message) of line 195 has succeeded for q in these writes
LineWrittenTo(writes, q) ==
    \E i \in DOMAIN writes : writes[i].kind = "line" /\ writes[i].to = q

\* The whole call as a step: it holds clients_lock from the loop to the
\* removal of the failed sockets, so no other lock holder sees it half done.
\* `origin` says whose line put the broadcast text on the clipboard (ByUser
\* when the hub's user did, and for a relayed line).
DoBroadcast(data, skip_client, origin) ==
    \E out \in [clients -> {"ok", "failLine", "failAck"}] :
        /\ \A q \in clients : out[q] \in SendOutcomes(q)
        /\ LET r == broadcast_to_clients(data, skip_client, out)
           IN  /\ clients' = clients \ r.disconnected
               /\ closed' = closed \cup r.disconnected
               /\ lastCall' = [made |-> TRUE, data |-> data, skip |-> skip_client,
                               origin |-> origin, reg |-> clients,
                               writes |-> r.writes, disconnected |-> r.disconnected]

(***************************************************************************)
(* The environment of the hub                                               *)
(***************************************************************************)
\* time passes
Tick ==
    /\ now + TickStep <= MaxTime
    /\ now' = now + TickStep
    /\ UNCHANGED <<running, clients, closed, last_update, xclip, xorigin, apc,
                   hpc, last_monitor_content, hcur, hnow, buffer, inbox,
                   peerGone, sends, copies, lastCall, lastAck>>
    /\ UNCHANGED <<clientVars, chunkVars, laterVars>>

\* the hub's user copies a text
LocalCopy(t) ==
    /\ copies < MaxCopies
    /\ copies' = copies + 1
    /\ xclip' = t
    /\ xorigin' = ByUser
    /\ localSent' = [q \in Peers |-> 0]
    /\ UNCHANGED <<running, clients, closed, last_update, now, apc, hpc,
                   last_monitor_content, hcur, hnow, buffer, inbox, peerGone,
                   sends, lastCall, lastAck>>
    /\ UNCHANGED hubOther

\* a connected peer writes one line
PeerSend(p, m) ==
    /\ hpc[p] # "none"
    /\ p \notin closed
    /\ ~peerGone[p]
    /\ sends < MaxSends
    /\ sends' = sends + 1
    /\ inbox' = [inbox EXCEPT ![p] = Append(@, m)]
    /\ UNCHANGED <<running, clients, closed, last_update, now, xclip, xorigin,
                   apc, hpc, last_monitor_content, hcur, hnow, buffer,
                   peerGone, copies, lastCall, lastAck>>
    /\ UNCHANGED <<clientVars, chunkVars, laterVars>>

\* a connected peer closes its end
PeerClose(p) ==
    /\ hpc[p] # "none"
    /\ p \notin closed
    /\ ~peerGone[p]
    /\ peerGone' = [peerGone EXCEPT ![p] = TRUE]
    /\ UNCHANGED <<running, clients, closed, last_update, now, xclip, xorigin,
                   apc, hpc, last_monitor_content, hcur, hnow, buffer, inbox,
                   sends, copies, lastCall, lastAck>>
    /\ UNCHANGED <<clientVars, chunkVars, laterVars>>

(***************************************************************************)
(* ClipboardServer.start.accept_clients (lines 298-311)                     *)
(***************************************************************************)
\* `while self.running:`
AcceptCheck ==
    /\ apc = "top"
    /\ apc' = IF running THEN "accept" ELSE "exit"
    /\ UNCHANGED <<running, clients, closed, last_update, now, xclip, xorigin,
                   hpc, last_monitor_content, hcur, hnow, buffer, inbox,
                   peerGone, sends, copies, lastCall, lastAck>>
    /\ UNCHANGED <<clientVars, chunkVars, laterVars>>

\* server_socket.accept() returns peer p's socket; its handler thread starts
Accept(p) ==
    /\ apc = "accept"
    /\ hpc[p] = "none"
    /\ hpc' = [hpc EXCEPT ![p] = "start"]
    /\ apc' = "top"
    /\ UNCHANGED <<running, clients, closed, last_update, now, xclip, xorigin,
                   last_monitor_content, hcur, hnow, buffer, inbox, peerGone,
                   sends, copies, lastCall, lastAck>>
    /\ UNCHANGED <<clientVars, chunkVars, laterVars>>


(***************************************************************************)
(* ClipboardServer.handle_client (lines 212-289), one thread per peer       *)
(***************************************************************************)
\* lines 215-220: register the socket under the lock, initialise the locals
HandleRegister(p) ==
    /\ hpc[p] = "start"
    /\ clients' = clients \cup {p}
    /\ last_monitor_content' = [last_monitor_content EXCEPT ![p] = None]
    /\ buffer' = [buffer EXCEPT ![p] = <<>>]
    /\ hpc' = [hpc EXCEPT ![p] = "top"]
    /\ UNCHANGED <<running, closed, last_update, now, xclip, xorigin, apc,
                   hcur, hnow, inbox, peerGone, sends, copies, lastCall, lastAck>>
    /\ UNCHANGED <<clientVars, chunkVars, laterVars>>

\* the watch decides to broadcast (lines 225 and 227)
WatchFires(p, current) ==
    /\ Truthy(current)
    /\ current # last_monitor_content[p]
    /\ (now - last_update) > update_threshold

\* lines 223-227: `while self.running`, read the clipboard, decide
HandlePoll(p) ==
    /\ hpc[p] = "top"
    /\ running
    /\ LET current == get_clipboard
       IN  IF WatchFires(p, current)
           THEN /\ hcur' = [hcur EXCEPT ![p] = [text |-> current, origin |-> xorigin]]
                /\ hnow' = [hnow EXCEPT ![p] = now]
                /\ hpc' = [hpc EXCEPT ![p] = "bcast"]
           ELSE /\ hpc' = [hpc EXCEPT ![p] = "recv"]
                /\ UNCHANGED <<hcur, hnow>>
    /\ UNCHANGED <<running, clients, closed, last_update, now, xclip, xorigin,
                   apc, last_monitor_content, buffer, inbox, peerGone, sends,
                   copies, lastCall, lastAck>>
    /\ UNCHANGED <<clientVars, chunkVars, laterVars>>

\* line 223 with running False: the loop ends, the finally block runs
HandleLoopExit(p) ==
    /\ hpc[p] = "top"
    /\ ~running
    /\ hpc' = [hpc EXCEPT ![p] = "finally"]
    /\ UNCHANGED <<running, clients, closed, last_update, now, xclip, xorigin,
                   apc, last_monitor_content, hcur, hnow, buffer, inbox,
                   peerGone, sends, copies, lastCall, lastAck>>
    /\ UNCHANGED <<clientVars, chunkVars, laterVars>>

\* lines 228-234: broadcast the local clipboard to every client
HandleBroadcastLocal(p) ==
    /\ hpc[p] = "bcast"
    /\ DoBroadcast([type |-> "text", content |-> hcur[p].text.s, filename |-> <<>>],
                   NoPeer, hcur[p].origin)
    /\ hpc' = [hpc EXCEPT ![p] = "after"]
    /\ localSent' = [q \in Peers |->
            IF hcur[p].origin = ByUser /\ LineWrittenTo(lastCall'.writes, q)
            THEN Min2(localSent[q] + 1, MaxCounted) ELSE localSent[q]]
    /\ UNCHANGED <<running, last_update, now, xclip, xorigin, apc,
                   last_monitor_content, hcur, hnow, buffer, inbox, peerGone,
                   sends, copies, lastAck>>
    /\ UNCHANGED hubOther

\* lines 235-236
HandleAfterLocal(p) ==
    /\ hpc[p] = "after"
    /\ last_monitor_content' = [last_monitor_content EXCEPT ![p] = hcur[p].text]
    /\ last_update' = hnow[p]
    /\ hcur' = [hcur EXCEPT ![p] = NoCur]
    /\ hnow' = [hnow EXCEPT ![p] = 0]
    /\ hpc' = [hpc EXCEPT ![p] = "recv"]
    /\ UNCHANGED <<running, clients, closed, now, xclip, xorigin, apc, buffer,
                   inbox, peerGone, sends, copies, lastCall, lastAck>>
    /\ UNCHANGED <<clientVars, chunkVars, laterVars>>

\* lines 238-240 and 274-275: nothing arrives within 0.1 s
HandleRecvTimeout(p) ==
    /\ hpc[p] = "recv"
    /\ p \notin closed
    /\ inbox[p] = <<>>
    /\ ~peerGone[p]
    /\ hpc' = [hpc EXCEPT ![p] = "top"]
    /\ UNCHANGED <<running, clients, closed, last_update, now, xclip, xorigin,
                   apc, last_monitor_content, hcur, hnow, buffer, inbox,
                   peerGone, sends, copies, lastCall, lastAck>>
    /\ UNCHANGED <<clientVars, chunkVars, laterVars>>

\* lines 238-242 and 276-281: the socket is closed, or the peer has gone
HandleRecvError(p) ==
    /\ hpc[p] = "recv"
    /\ p \in closed \/ (peerGone[p] /\ inbox[p] = <<>>)
    /\ hpc' = [hpc EXCEPT ![p] = "finally"]
    /\ UNCHANGED <<running, clients, closed, last_update, now, xclip, xorigin,
                   apc, last_monitor_content, hcur, hnow, buffer, inbox,
                   peerGone, sends, copies, lastCall, lastAck>>
    /\ UNCHANGED <<clientVars, chunkVars, laterVars>>

\* lines 240-248: recv returns the first k lines that have arrived
HandleRecv(p, k) ==
    /\ hpc[p] = "recv"
    /\ p \notin closed
    /\ k \in 1..Len(inbox[p])
    /\ buffer' = [buffer EXCEPT ![p] = SubSeq(inbox[p], 1, k)]
    /\ inbox' = [inbox EXCEPT ![p] = SubSeq(@, k + 1, Len(@))]
    /\ hpc' = [hpc EXCEPT ![p] = "line"]
    /\ UNCHANGED <<running, clients, closed, last_update, now, xclip, xorigin,
                   apc, last_monitor_content, hcur, hnow, peerGone, sends,
                   copies, lastCall, lastAck>>
    /\ UNCHANGED <<clientVars, chunkVars, laterVars>>

\* str(self.sync_dir / data["filename"])
FilePath(filename) == <<"~", "/">> \o filename

\* lines 252-262 and 269-272: apply the line to the clipboard, or skip it
HandleApply(p) ==
    /\ hpc[p] = "line"
    /\ LET data == Head(buffer[p])
           how == LineOutcome(data)
       IN  IF how \in {"json_error", "error"}
           THEN /\ buffer' = [buffer EXCEPT ![p] = Tail(@)]
                /\ hpc' = [hpc EXCEPT ![p] =
                              IF Tail(buffer[p]) = <<>> THEN "top" ELSE "line"]
                /\ UNCHANGED <<xclip, xorigin>>
           ELSE /\ xclip' = IF how = "file" THEN FilePath(data.filename)
                            ELSE Get(data, "content", <<>>)
                /\ hpc' = [hpc EXCEPT ![p] = IF how = "file" THEN "ack" ELSE "relay"]
                /\ xorigin' = [peer |-> p, type |-> Get(data, "type", "")]
                /\ UNCHANGED buffer
    /\ UNCHANGED <<running, clients, closed, last_update, now, apc,
                   last_monitor_content, hcur, hnow, inbox, peerGone,
                   sends, copies, lastCall, lastAck>>
    /\ UNCHANGED <<clientVars, chunkVars, laterVars>>

\* line 263: relay the line to the other clients
HandleRelay(p) ==
    /\ hpc[p] = "relay"
    /\ DoBroadcast(Head(buffer[p]), p, ByUser)
    /\ hpc' = [hpc EXCEPT ![p] = "ack"]
    /\ UNCHANGED <<running, last_update, now, xclip, xorigin, apc,
                   last_monitor_content, hcur, hnow, buffer, inbox, peerGone,
                   sends, copies, lastAck>>
    /\ UNCHANGED <<clientVars, chunkVars, laterVars>>

\* lines 265-272: acknowledge to the sender; when the send raises, the
\* inner handler logs it and lines 266-267 are skipped
HandleAck(p, sent) ==
    /\ hpc[p] = "ack"
    /\ sent => p \notin closed
    /\ ~sent => (p \in closed \/ peerGone[p])
    /\ IF sent
       THEN /\ lastAck' = [to |-> p, sender |-> p]
            /\ last_update' = now
            /\ last_monitor_content' =
                 [last_monitor_content EXCEPT ![p] =
                      Str(Get(Head(buffer[p]), "content", <<>>))]
       ELSE UNCHANGED <<lastAck, last_update, last_monitor_content>>
    /\ buffer' = [buffer EXCEPT ![p] = Tail(@)]
    /\ hpc' = [hpc EXCEPT ![p] = IF Tail(buffer[p]) = <<>> THEN "top" ELSE "line"]
    /\ UNCHANGED <<running, clients, closed, now, xclip, xorigin, apc, hcur,
                   hnow, inbox, peerGone, sends, copies, lastCall>>
    /\ UNCHANGED <<clientVars, chunkVars, laterVars>>

\* lines 283-285: leave the registry, under the lock
HandleFinallyDiscard(p) ==
    /\ hpc[p] = "finally"
    /\ clients' = clients \ {p}
    /\ last_monitor_content' = [last_monitor_content EXCEPT ![p] = None]
    /\ hpc' = [hpc EXCEPT ![p] = "closing"]
    /\ UNCHANGED <<running, closed, last_update, now, xclip, xorigin, apc,
                   hcur, hnow, buffer, inbox, peerGone,
                   sends, copies, lastCall, lastAck>>
    /\ UNCHANGED <<clientVars, chunkVars, laterVars>>

\* lines 286-289: close the socket, outside the lock
HandleFinallyClose(p) ==
    /\ hpc[p] = "closing"
    /\ closed' = closed \cup {p}
    /\ hpc' = [hpc EXCEPT ![p] = "done"]
    /\ UNCHANGED <<running, clients, last_update, now, xclip, xorigin, apc,
                   last_monitor_content, hcur, hnow, buffer, inbox, peerGone,
                   sends, copies, lastCall, lastAck>>
    /\ UNCHANGED <<clientVars, chunkVars, laterVars>>

(***************************************************************************)
(* ClipboardServer.stop (lines 318-325)                                     *)
(***************************************************************************)
stop ==
    /\ running
    /\ running' = FALSE
    /\ closed' = closed \cup clients
    /\ UNCHANGED <<clients, last_update, now, xclip, xorigin, apc, hpc,
                   last_monitor_content, hcur, hnow, buffer, inbox, peerGone,
                   sends, copies, lastCall, lastAck>>
    /\ UNCHANGED <<clientVars, chunkVars, laterVars>>

HubInit ==
    /\ running = TRUE
    /\ clients = {}
    /\ closed = {}
    /\ last_update = 0
    /\ now = 0
    /\ xclip = <<>>
    /\ xorigin = ByUser
    /\ apc = "top"
    /\ hpc = [p \in Peers |-> "none"]
    /\ last_monitor_content = [p \in Peers |-> None]
    /\ hcur = [p \in Peers |-> NoCur]
    /\ hnow = [p \in Peers |-> 0]
    /\ buffer = [p \in Peers |-> <<>>]
    /\ inbox = [p \in Peers |-> <<>>]
    /\ peerGone = [p \in Peers |-> FALSE]
    /\ sends = 0
    /\ copies = 0
    /\ lastCall = NoCall
    /\ lastAck = NoAck

HubNext ==
    \/ Tick
    \/ \E t \in LocalTexts : LocalCopy(t)
    \/ \E p \in Peers, m \in Lines : PeerSend(p, m)
    \/ \E p \in Peers : PeerClose(p)
    \/ AcceptCheck
    \/ \E p \in Peers : Accept(p)
    \/ \E p \in Peers : HandleRegister(p)
    \/ \E p \in Peers : HandlePoll(p)
    \/ \E p \in Peers : HandleLoopExit(p)
    \/ \E p \in Peers : HandleBroadcastLocal(p)
    \/ \E p \in Peers : HandleAfterLocal(p)
    \/ \E p \in Peers : HandleRecvTimeout(p)
    \/ \E p \in Peers : HandleRecvError(p)
    \/ \E p \in Peers, k \in 1..MaxSends : HandleRecv(p, k)
    \/ \E p \in Peers : HandleApply(p)
    \/ \E p \in Peers : HandleRelay(p)
    \/ \E p \in Peers, sent \in BOOLEAN : HandleAck(p, sent)
    \/ \E p \in Peers : HandleFinallyDiscard(p)
    \/ \E p \in Peers : HandleFinallyClose(p)
    \/ stop



(***************************************************************************)
(* Claims about the hub, checked under Spec                                 *)
(***************************************************************************)
LineWritesTo(q) ==
    { i \in DOMAIN lastCall.writes :
        lastCall.writes[i].kind = "line" /\ lastCall.writes[i].to = q }

OkWritesTo(q) ==
    { i \in DOMAIN lastCall.writes :
        lastCall.writes[i].kind = "ok" /\ lastCall.writes[i].to = q }

\* C1: a call broadcast_to_clients(data, skip_client=o) writes nothing, neither
\* the line nor "OK\n", to o, whatever the registry holds and whichever sends
\* to the other peers fail.
C1_NoWriteToOriginator ==
    lastCall.made /\ lastCall.skip # NoPeer =>
        \A i \in DOMAIN lastCall.writes : lastCall.writes[i].to # lastCall.skip

\* C1 witness: a relay whose originator is registered, that wrote to another
\* peer and had a send to another peer fail.
C1_Witness ==
    /\ lastCall.made
    /\ lastCall.skip \in lastCall.reg
    /\ lastCall.writes # <<>>
    /\ lastCall.disconnected # {}

\* C2: once the hub has applied a text line from peer p, no handler's clipboard
\* watch broadcasts the resulting clipboard content back to p.
C2_NoEchoOfAppliedText ==
    ~ ( /\ lastCall.made
        /\ lastCall.skip = NoPeer
        /\ lastCall.origin.type = "text"
        /\ LineWritesTo(lastCall.origin.peer) # {} )

\* C3: a call sends the one serialization of data exactly once to every peer
\* registered when it takes the lock, other than o, and to nobody else; a peer
\* whose send did not fail has the line (and its "OK\n") whatever happened to
\* the sends to the others, and a peer whose send failed was tried once.
C3_ExactlyOnceToEveryOther ==
    lastCall.made =>
        /\ \A i \in DOMAIN lastCall.writes :
              /\ lastCall.writes[i].to \in lastCall.reg \ {lastCall.skip}
              /\ lastCall.writes[i].kind = "line" =>
                    lastCall.writes[i].body = dumps(lastCall.data)
        /\ \A q \in lastCall.reg \ {lastCall.skip} :
              IF q \in lastCall.disconnected
              THEN Cardinality(LineWritesTo(q)) <= 1 /\ OkWritesTo(q) = {}
              ELSE Cardinality(LineWritesTo(q)) = 1 /\ Cardinality(OkWritesTo(q)) = 1
        /\ lastCall.disconnected \subseteq lastCall.reg \ {lastCall.skip}

\* C3 witness: a broadcast in which the send to one peer failed and another
\* peer was still sent the line.
C3_Witness ==
    /\ lastCall.made
    /\ \E q \in lastCall.reg, r \in lastCall.reg :
          /\ q \in lastCall.disconnected
          /\ LineWritesTo(q) = {}
          /\ r \notin lastCall.disconnected
          /\ Cardinality(LineWritesTo(r)) = 1

\* C4: in every reachable state the registry holds no socket the hub has closed.
C4_RegistryHoldsNoClosedSocket == clients \cap closed = {}

\* C5: "OK\n" goes only to the peer whose line was applied: relaying a line
\* of peer o writes no "OK\n" to any other peer.
C5_AckOnlyToSender ==
    lastCall.made /\ lastCall.skip # NoPeer =>
        \A q \in Peers \ {lastCall.skip} : OkWritesTo(q) = {}

\* a peer whose handler has registered its socket
Registered(p) == hpc[p] \notin {"none", "start"}

\* C21: removing a peer from the registry and closing its socket are one
\* critical section on every removal path: between two lock holders a peer
\* that has left the registry is closed, and while the hub runs a closed
\* socket is in the registry no more
C21_RemoveAndCloseTogether ==
    \A p \in Peers :
        Registered(p) =>
            /\ p \notin clients => p \in closed
            /\ (running /\ p \in closed) => p \notin clients

\* what C21 says of the removal in broadcast_to_clients, and of closing
C21_BroadcastRemovesAndCloses ==
    /\ lastCall.made => lastCall.disconnected \subseteq closed
    /\ \A p \in Peers : (Registered(p) /\ running /\ p \in closed) => p \notin clients


(***************************************************************************)
(* The peer: ClipboardHandler (windows.py)                                  *)
(***************************************************************************)
\* files of one clipboard file list / of one inbound file-set
MaxFiles == 2
\* file sizes, in bytes, run from 0 to MaxSize
MaxSize == 1
\* changes of the peer's local clipboard made by its user in one behaviour
MaxUserCopies == 2
\* messages the peer receives in one behaviour
MaxInbound == 2

FileNames == {"f", "g"}
ClientTexts == { <<"x">>, <<"y">> }

\* A content dictionary.  hasData says whether a text dictionary has the key
\* 'data'; files is the list under 'files', each entry with 'name' and 'size'.
NoContent == [type |-> "none", hasData |-> FALSE, data |-> <<>>, files |-> <<>>]
TextContent(d) == [type |-> "text", hasData |-> TRUE, data |-> d, files |-> <<>>]
\* a text message as the hub builds it: "content", no 'data' key
TextNoData == [type |-> "text", hasData |-> FALSE, data |-> <<>>, files |-> <<>>]
FilesContent(fs) == [type |-> "files", hasData |-> FALSE, data |-> <<>>, files |-> fs]

FileEntries == [name : FileNames, size : 0..MaxSize]

RECURSIVE SeqsUpTo(_, _)
SeqsUpTo(S, n) ==
    IF n = 0 THEN { <<>> }
    ELSE LET shorter == SeqsUpTo(S, n - 1)
         IN  shorter \cup { Append(q, x) : q \in { r \in shorter : Len(r) = n - 1 }, x \in S }

\* the file lists the clipboard may hold (CF_HDROP)
FileLists == SeqsUpTo(FileEntries, MaxFiles) \ { <<>> }

\* sha256(...).hexdigest() of f"{name}:{size}", as a number: distinct inputs
\* give distinct digests, in an order unrelated to the order of the inputs
NameCode(n) == CASE n = "f" -> 1 [] n = "g" -> 2 [] OTHER -> 0
FileDigest(f) ==
    ((NameCode(f.name) * (MaxSize + 2) + f.size) * 7 + 3) % 11

RECURSIVE Insert(_, _)
Insert(x, sorted) ==
    IF sorted = <<>> THEN <<x>>
    ELSE IF x <= Head(sorted) THEN <<x>> \o sorted
    ELSE <<Head(sorted)>> \o Insert(x, Tail(sorted))

\* sorted(list)
RECURSIVE Sorted(_)
Sorted(q) == IF q = <<>> THEN <<>> ELSE Insert(Head(q), Sorted(Tail(q)))

NoHash == [kind |-> "none", text |-> <<>>, digests |-> <<>>]

\* a fingerprint that joins the per-file digests in the order of the list
HashInListOrder(content) ==
    IF content.type = "text"
    THEN IF content.hasData
         THEN [kind |-> "text", text |-> content.data, digests |-> <<>>]
         ELSE NoHash
    ELSE IF content.type = "files"
    THEN [kind |-> "files", text |-> <<>>,
          digests |-> [i \in DOMAIN content.files |-> FileDigest(content.files[i])]]
    ELSE NoHash

\* _calculate_content_hash (lines 135-149): sha256 of the text, or of the
\* sorted per-file digests joined; None when the dictionary has no 'data' (the
\* KeyError is caught) and for any other type (no branch returns)
_calculate_content_hash(content) ==
    IF content.type = "text"
    THEN IF content.hasData
         THEN [kind |-> "text", text |-> content.data, digests |-> <<>>]
         ELSE NoHash
    ELSE IF content.type = "files"
    THEN [kind |-> "files", text |-> <<>>,
          digests |-> Sorted([i \in DOMAIN content.files |-> FileDigest(content.files[i])])]
    ELSE NoHash

\* is_new_content without the comparison with last_hash
IsNewAlways(content, lh) == content # NoContent

\* is_new_content (lines 151-161): the value it returns
IsNew(content, lh) ==
    /\ content # NoContent
    /\ _calculate_content_hash(content) # lh

\* is_new_content that never stores the hash
LastHashKept(content, lh) == lh

\* is_new_content (lines 151-161): last_hash after the call
LastHashAfter(content, lh) ==
    IF content # NoContent /\ _calculate_content_hash(content) # lh
    THEN _calculate_content_hash(content)
    ELSE lh

\* _process_files (lines 197-264) for files that exist and are within the
\* size limits: an empty file raises ZeroDivisionError at line 239 and is
\* left out; None when no file is left
RECURSIVE KeepProcessed(_)
KeepProcessed(files) ==
    IF files = <<>> THEN <<>>
    ELSE IF Head(files).size = 0 THEN KeepProcessed(Tail(files))
    ELSE <<Head(files)>> \o KeepProcessed(Tail(files))

_process_files(files) ==
    IF KeepProcessed(files) = <<>> THEN NoContent
    ELSE FilesContent(KeepProcessed(files))


(***************************************************************************)
(* The peer's clipboard and set_clipboard_content                           *)
(***************************************************************************)
EmptyClip == [fmt |-> "empty", text |-> <<>>, files |-> <<>>]
TextClip(t) == [fmt |-> "text", text |-> t, files |-> <<>>]
FileClip(fs) == [fmt |-> "hdrop", text |-> <<>>, files |-> fs]

\* get_clipboard_content (lines 163-195): the content it hands to
\* is_new_content; with neither format on the clipboard it makes no call
ClipRead ==
    IF winclip.fmt = "text" THEN TextContent(winclip.text)
    ELSE IF winclip.fmt = "hdrop" THEN _process_files(winclip.files)
    ELSE NoContent

NoApplied == [valid |-> FALSE, content |-> NoContent]
NoPoll == [made |-> FALSE, read |-> NoContent, applied |-> NoApplied,
           returned |-> NoContent, sent |-> "none"]
NoStreak == [valid |-> FALSE, text |-> <<>>, polls |-> 0, sends |-> 0,
             firstSent |-> FALSE]

\* the history of is_new_content calls after one more call
Called(content) ==
    LET rec == [content |-> content, before |-> last_hash,
                result |-> IsNew(content, last_hash),
                prev |-> IF calls = <<>> THEN NoContent
                         ELSE calls[Len(calls)].content]
    IN  IF calls = <<>> THEN <<rec>> ELSE <<calls[Len(calls)], rec>>

\* An inbound file as the chunk loop hands it over (lines 606-616): one entry
\* with the name and size of the file_info message; `actual` is the length of
\* the payload once base64-decoded and decompressed, -1 when that raises.
\* _set_file_content (lines 297-323) removes the files of an earlier transfer,
\* writes the decoded file and, when it has saved one, puts it on the clipboard.
ClipAfterFiles(name, actual) ==
    IF actual >= 0 THEN FileClip(<<[name |-> name, size |-> actual]>>)
    ELSE IF winclip.fmt = "hdrop" THEN FileClip(<<>>)
    ELSE winclip

\* _set_text_content (lines 281-295), reached with content['data'] (line 273):
\* without the key the KeyError is caught at line 276.  The clipboard itself
\* is taken to accept the write.
ClipAfterText(content) ==
    IF content.hasData THEN TextClip(content.data) ELSE winclip

(***************************************************************************)
(* UnifiedClient.start_clipboard_sync (lines 520-641)                       *)
(***************************************************************************)
\* the peer's user copies a text
UserCopyText(t) ==
    /\ ucopies < MaxUserCopies
    /\ ucopies' = ucopies + 1
    /\ winclip' = TextClip(t)
    /\ applied' = NoApplied
    /\ UNCHANGED <<last_hash, cpc, inbound, calls, lastPoll, streak>>
    /\ UNCHANGED <<hubVars, chunkVars, laterVars>>

\* the peer's user copies files
UserCopyFiles(fs) ==
    /\ ucopies < MaxUserCopies
    /\ ucopies' = ucopies + 1
    /\ winclip' = FileClip(fs)
    /\ applied' = NoApplied
    /\ UNCHANGED <<last_hash, cpc, inbound, calls, lastPoll, streak>>
    /\ UNCHANGED <<hubVars, chunkVars, laterVars>>

\* lines 525-529: the connection is made
ClientConnect ==
    /\ cpc = "connect"
    /\ cpc' = "poll"
    /\ streak' = NoStreak
    /\ UNCHANGED <<last_hash, winclip, ucopies, inbound, calls, applied, lastPoll>>
    /\ UNCHANGED <<hubVars, chunkVars, laterVars>>

\* lines 541-583: poll the clipboard and send what is new; sendOk says
\* whether the socket took the messages (otherwise line 583 raises and the
\* connection is dropped)
ClientPoll(sendOk) ==
    /\ cpc = "poll"
    /\ LET called == winclip.fmt # "empty"
           read == ClipRead
           current == IF called /\ IsNew(read, last_hash) THEN read ELSE NoContent
           sent == current # NoContent /\ sendOk
       IN  /\ current = NoContent => sendOk
           /\ last_hash' = IF called THEN LastHashAfter(read, last_hash) ELSE last_hash
           /\ calls' = IF called THEN Called(read) ELSE calls
           /\ lastPoll' = [made |-> TRUE, read |-> read, applied |-> applied,
                           returned |-> current,
                           sent |-> IF sent THEN current.type ELSE "none"]
           /\ streak' =
                IF winclip.fmt # "text" \/ ~sendOk THEN NoStreak
                ELSE IF streak.valid /\ streak.text = winclip.text
                THEN [streak EXCEPT !.polls = IF @ < 2 THEN @ + 1 ELSE @,
                                    !.sends = @ + (IF sent THEN 1 ELSE 0)]
                ELSE [valid |-> TRUE, text |-> winclip.text, polls |-> 1,
                      sends |-> IF sent THEN 1 ELSE 0, firstSent |-> sent]
           /\ cpc' = IF sendOk THEN "recv" ELSE "connect"
    /\ applied' = NoApplied
    /\ UNCHANGED <<winclip, ucopies, inbound>>
    /\ UNCHANGED <<hubVars, chunkVars, laterVars>>

\* lines 586-587 with nothing to read within 0.1 s, and lines 589-590
ClientRecvNothing ==
    /\ cpc = "recv"
    /\ cpc' = "poll"
    /\ UNCHANGED <<last_hash, winclip, ucopies, inbound, calls, applied,
                   lastPoll, streak>>
    /\ UNCHANGED <<hubVars, chunkVars, laterVars>>

\* lines 618-619 and set_clipboard_content (lines 266-279) for a text message
ClientRecvText(content) ==
    /\ cpc = "recv"
    /\ inbound < MaxInbound
    /\ inbound' = inbound + 1
    /\ calls' = Called(content)
    /\ last_hash' = LastHashAfter(content, last_hash)
    /\ IF IsNew(content, last_hash)
       THEN /\ winclip' = ClipAfterText(content)
            /\ applied' = IF content.hasData
                          THEN [valid |-> TRUE, content |-> content]
                          ELSE NoApplied
       ELSE UNCHANGED <<winclip, applied>>
    /\ cpc' = "poll"
    /\ UNCHANGED <<ucopies, lastPoll, streak>>
    /\ UNCHANGED <<hubVars, chunkVars, laterVars>>

\* lines 591-616 and set_clipboard_content for the file the chunk loop
\* has put together
ClientRecvFile(name, size, actual) ==
    /\ cpc = "recv"
    /\ inbound < MaxInbound
    /\ inbound' = inbound + 1
    /\ LET content == FilesContent(<<[name |-> name, size |-> size]>>)
       IN  /\ calls' = Called(content)
           /\ last_hash' = LastHashAfter(content, last_hash)
           /\ IF IsNew(content, last_hash)
              THEN /\ winclip' = ClipAfterFiles(name, actual)
                   /\ applied' = IF actual >= 0
                                 THEN [valid |-> TRUE, content |-> content]
                                 ELSE NoApplied
              ELSE UNCHANGED <<winclip, applied>>
    /\ cpc' = "poll"
    /\ UNCHANGED <<ucopies, lastPoll, streak>>
    /\ UNCHANGED <<hubVars, chunkVars, laterVars>>

ClientInit ==
    /\ last_hash = NoHash
    /\ winclip = EmptyClip
    /\ cpc = "connect"
    /\ ucopies = 0
    /\ inbound = 0
    /\ calls = <<>>
    /\ applied = NoApplied
    /\ lastPoll = NoPoll
    /\ streak = NoStreak

ClientNext ==
    \/ \E t \in ClientTexts : UserCopyText(t)
    \/ \E fs \in FileLists : UserCopyFiles(fs)
    \/ ClientConnect
    \/ \E sendOk \in BOOLEAN : ClientPoll(sendOk)
    \/ ClientRecvNothing
    \/ \E t \in ClientTexts : ClientRecvText(TextContent(t))
    \/ ClientRecvText(TextNoData)
    \/ \E n \in FileNames, sz \in 0..MaxSize, actual \in -1..MaxSize :
          ClientRecvFile(n, sz, actual)

(***************************************************************************)
(* Claims about the change detector and the sync loop, under SpecClient     *)
(***************************************************************************)
TwoCallsSameContent ==
    Len(calls) = 2 /\ calls[1].content = calls[2].content

C7_OneMessagePerHeldText ==
    streak.valid /\ streak.polls >= 2 /\ streak.firstSent => streak.sends = 1

\* C8: when the poll that follows set_clipboard_content's write reads the
\* content that was written, get_clipboard_content returns None and the loop
\* sends nothing.
C8_AppliedContentNotEmitted ==
    lastPoll.made /\ lastPoll.applied.valid
      /\ lastPoll.read = lastPoll.applied.content =>
        lastPoll.returned = NoContent /\ lastPoll.sent = "none"

\* C8 witness: a poll right after an inbound file was written reads that file
\* back and returns None.
C8_Witness ==
    /\ lastPoll.made
    /\ lastPoll.applied.valid
    /\ lastPoll.applied.content.type = "files"
    /\ lastPoll.read = lastPoll.applied.content
    /\ lastPoll.returned = NoContent

\* the file list fs in the order given by the permutation p of its indices
Reordered(fs, p) == [i \in DOMAIN fs |-> fs[p[i]]]

\* C19: fingerprinting the same file-set in any enumeration order gives the
\* same digest: for every file-set the detector has been called with,
\* _calculate_content_hash returns the same value for each reordering of its
\* list of files.
C19_FingerprintOrderIndependent ==
    \A k \in DOMAIN calls :
        calls[k].content.type = "files" =>
            \A p \in Permutations(DOMAIN calls[k].content.files) :
                _calculate_content_hash(
                    FilesContent(Reordered(calls[k].content.files, p)))
                = _calculate_content_hash(calls[k].content)

\* the detector has been called with two files whose digests are not in
\* sorted order
C19_Witness ==
    \E k \in DOMAIN calls :
        /\ calls[k].content.type = "files"
        /\ Len(calls[k].content.files) = 2
        /\ FileDigest(calls[k].content.files[1]) > FileDigest(calls[k].content.files[2])

\* the sync loop polls the clipboard (lines 541-583)
PollStep == cpc = "poll" /\ cpc' # "poll"

\* the latest poll detected new content and the send of it raised
SendFailed ==
    lastPoll.made /\ lastPoll.returned # NoContent /\ lastPoll.sent = "none"

\* C23: content that was fingerprinted but not completely sent when the
\* connection dropped, and is still on the clipboard, is detected again by
\* the poll on the new connection
C23_RedetectedAfterReconnect ==
    [][(PollStep /\ SendFailed /\ ClipRead = lastPoll.read)
          => lastPoll'.returned = lastPoll.read]_clientVars

(***************************************************************************)
(* One file through _process_files, the chunk loop of the send path, the    *)
(* chunk loop of the receive path and _set_file_content                     *)
(***************************************************************************)
\* characters per chunk: the source's 1024 * 1024, scaled down
ChunkUnits == 8
\* the longest file, in bytes
MaxPayload == 5

\* line 562
chunk_size == ChunkUnits

ByteValues == {7, 200}
Payloads == SeqsUpTo(ByteValues, MaxPayload)

Min(a, b) == IF a <= b THEN a ELSE b

RECURSIVE SumSeq(_)
SumSeq(q) == IF q = <<>> THEN 0 ELSE Head(q) + SumSeq(Tail(q))

\* the length of the run of equal bytes that starts P
RECURSIVE RunLen(_)
RunLen(P) ==
    IF Len(P) >= 2 /\ P[2] = P[1] THEN 1 + RunLen(Tail(P)) ELSE 1

RECURSIVE Runs(_)
Runs(P) ==
    IF P = <<>> THEN <<>>
    ELSE <<RunLen(P), P[1]>> \o Runs(SubSeq(P, RunLen(P) + 1, Len(P)))

\* zlib.compress: a header byte, the runs of the input as (count, byte)
\* pairs, and a trailer with the length and a checksum of the input, so that,
\* as with zlib, the output differs from the input and a truncated or altered
\* stream does not decompress
Compress(P) == <<120>> \o Runs(P) \o <<Len(P) % 256, SumSeq(P) % 251>>

RECURSIVE Expand(_)
Expand(pairs) ==
    IF pairs = <<>> THEN <<>>
    ELSE [k \in 1..pairs[1] |-> pairs[2]] \o Expand(SubSeq(pairs, 3, Len(pairs)))

Failed == [ok |-> FALSE, bytes |-> <<>>]
Decoded(b) == [ok |-> TRUE, bytes |-> b]

\* zlib.decompress: raises on anything that is not a whole stream
Decompress(Z) ==
    IF Len(Z) < 3 \/ Z[1] # 120 \/ (Len(Z) - 3) % 2 # 0 THEN Failed
    ELSE LET pairs == SubSeq(Z, 2, Len(Z) - 2)
             out == Expand(pairs)
         IN  IF /\ \A k \in 1..(Len(pairs) \div 2) : pairs[2 * k - 1] >= 1
                /\ Len(out) % 256 = Z[Len(Z) - 1]
                /\ SumSeq(out) % 251 = Z[Len(Z)]
             THEN Decoded(out)
             ELSE Failed

\* base64: characters are the alphabet's indices 0..63, and Pad for "="
Pad == 64

RECURSIVE B64Encode(_)
B64Encode(b) ==
    IF b = <<>> THEN <<>>
    ELSE IF Len(b) = 1
    THEN << b[1] \div 4, (b[1] % 4) * 16, Pad, Pad >>
    ELSE IF Len(b) = 2
    THEN << b[1] \div 4, (b[1] % 4) * 16 + b[2] \div 16, (b[2] % 16) * 4, Pad >>
    ELSE << b[1] \div 4, (b[1] % 4) * 16 + b[2] \div 16,
            (b[2] % 16) * 4 + b[3] \div 64, b[3] % 64 >>
           \o B64Encode(SubSeq(b, 4, Len(b)))

\* the bytes of a whole base64 string, group by group; <<-1>> marks a group
\* that is not valid
RECURSIVE B64Groups(_)
B64Groups(c) ==
    IF c = <<>> THEN <<>>
    ELSE LET last == Len(c) = 4
             b1 == c[1] * 4 + c[2] \div 16
             b2 == (c[2] % 16) * 16 + c[3] \div 4
             b3 == (c[3] % 4) * 64 + c[4]
         IN  IF c[1] = Pad \/ c[2] = Pad THEN <<-1>>
             ELSE IF c[3] = Pad
                  THEN IF last /\ c[4] = Pad THEN <<b1>> ELSE <<-1>>
             ELSE IF c[4] = Pad
                  THEN IF last THEN <<b1, b2>> ELSE <<-1>>
             ELSE <<b1, b2, b3>> \o B64Groups(SubSeq(c, 5, Len(c)))

\* base64.b64decode: raises (incorrect padding) unless the string is whole
B64Decode(c) ==
    IF Len(c) % 4 # 0 THEN Failed
    ELSE LET b == B64Groups(c)
         IN  IF \E k \in DOMAIN b : b[k] = -1 THEN Failed ELSE Decoded(b)

\* _process_files, second pass (lines 230-251), for one file with bytes P
ProcessedEntry(P) ==
    [name |-> "f", size |-> Len(P), data |-> B64Encode(Compress(P)),
     compressed |-> TRUE]

\* line 565: data[i:i + chunk_size]
ChunkOf(data, i) == SubSeq(data, i + 1, Min(i + chunk_size, Len(data)))

\* a `final` that misses a payload ending on a chunk boundary
IsFinalStrict(data, i) == i + chunk_size > Len(data)

\* line 570
IsFinal(data, i) == i + chunk_size >= Len(data)

InfoMsg(e) ==
    [type |-> "file_info", name |-> e.name, size |-> e.size,
     compressed |-> e.compressed, chunk |-> <<>>, final |-> FALSE]
ChunkMsg(e, i) ==
    [type |-> "file_chunk", name |-> e.name, size |-> 0, compressed |-> FALSE,
     chunk |-> ChunkOf(e.data, i), final |-> IsFinal(e.data, i)]

\* ''.join(file_data), line 612
RECURSIVE Join(_)
Join(chunks) == IF chunks = <<>> THEN <<>> ELSE Head(chunks) \o Join(Tail(chunks))

\* _set_file_content, lines 307-313: the bytes it writes for one entry
DecodedFile(data, compressed) ==
    LET raw == B64Decode(data)
    IN  IF raw.ok /\ compressed THEN Decompress(raw.bytes) ELSE raw

NoEntry == [name |-> "", size |-> 0, data |-> <<>>, compressed |-> FALSE]
NoMsg == [type |-> "", name |-> "", size |-> 0, compressed |-> FALSE,
          chunk |-> <<>>, final |-> FALSE]
NothingWritten == [status |-> "none", bytes |-> <<>>, chunks |-> 0, byFinal |-> FALSE]

\* messages of other kinds that reach the receiving peer in one behaviour
MaxOther == 1

\* the types start_clipboard_sync has a branch for (lines 589, 591, 618)
DispatchKinds == {"keep_alive", "file_info", "text"}

\* a keep-alive, a text and the file_info of another transfer
OtherMsgs ==
    { [type |-> "keep_alive", name |-> "", size |-> 0, compressed |-> FALSE,
       chunk |-> <<>>, final |-> FALSE],
      [type |-> "text", name |-> "", size |-> 0, compressed |-> FALSE,
       chunk |-> <<"x">>, final |-> FALSE],
      [type |-> "file_info", name |-> "g", size |-> 1, compressed |-> FALSE,
       chunk |-> <<>>, final |-> FALSE] }

\* chunk messages of other transfers relayed to the receiving peer
MaxForeign == 1

\* TransferProgress.__init__ (lines 46-53) and update (line 56); made says
\* whether the object exists
NoProgress == [made |-> FALSE, total_size |-> 0, current_size |-> 0]
TransferProgress(total) ==
    [made |-> TRUE, total_size |-> total, current_size |-> 0]
update(p, bytes_transferred) ==
    [p EXCEPT !.current_size = @ + bytes_transferred]

\* the number of decimal digits of n
RECURSIVE Digits(_)
Digits(n) == IF n < 10 THEN 1 ELSE 1 + Digits(n \div 10)

\* len(json.dumps(...)) of a file_chunk message without its name, its chunk
\* and its final value, and of a file_info message without its name, its size
\* and its compressed value
ChunkJsonOverhead == 58
InfoJsonOverhead == 59
BoolLen(b) == IF b THEN 4 ELSE 5

\* len('{"type": "keep_alive"}')
KeepAliveJsonLen == 22
\* len('{"type": "text", "data": ""}')
TextJsonOverhead == 28

\* len(serialized), line 411: one character per byte, the text being ASCII
JsonLen(m) ==
    IF m.type = "keep_alive" THEN KeepAliveJsonLen
    ELSE IF m.type = "text" THEN TextJsonOverhead + Len(m.chunk)
    ELSE IF m.type = "file_chunk"
    THEN ChunkJsonOverhead + 1 + Len(m.chunk) + BoolLen(m.final)
    ELSE InfoJsonOverhead + 1 + Digits(m.size) + BoolLen(m.compressed)

\* len(message), line 412: "<length>:<serialized>"
FrameLen(m) == Digits(JsonLen(m)) + 1 + JsonLen(m)

\* a file is copied on the sending peer
ChunkPick(P) ==
    /\ fpc = "pick"
    /\ fileBytes' = P
    /\ fpc' = "process"
    /\ UNCHANGED <<file_info, ci, wire, sentLog, rpc, rinfo, file_data, written,
                   taken, progress>>
    /\ UNCHANGED <<rxTimedOut, foreign, hubVars, clientVars, laterVars>>

\* get_clipboard_content -> _process_files: an empty file raises at line 239
\* and is left out of the batch
ProcessFile ==
    /\ fpc = "process"
    /\ IF fileBytes = <<>>
       THEN fpc' = "skipped" /\ UNCHANGED file_info
       ELSE fpc' = "info" /\ file_info' = ProcessedEntry(fileBytes)
    /\ UNCHANGED <<fileBytes, ci, wire, sentLog, rpc, rinfo, file_data, written,
                   taken, progress>>
    /\ UNCHANGED <<rxTimedOut, foreign, hubVars, clientVars, laterVars>>

\* lines 552-559: the file_info message; a failed send raises (line 583)
SendInfo(ok) ==
    /\ fpc = "info"
    /\ IF ok
       THEN /\ wire' = Append(wire, InfoMsg(file_info))
            /\ sentLog' = Append(sentLog, [msg |-> InfoMsg(file_info), offset |-> 0])
            /\ fpc' = "chunk"
       ELSE /\ fpc' = "failed"
            /\ UNCHANGED <<wire, sentLog>>
    /\ ci' = 0
    /\ progress' = [progress EXCEPT !.send = TransferProgress(file_info.size)]
    /\ UNCHANGED <<fileBytes, file_info, rpc, rinfo, file_data, written, taken>>
    /\ UNCHANGED <<rxTimedOut, foreign, hubVars, clientVars, laterVars>>

\* lines 564-574: one turn of `for i in range(0, len(data), chunk_size)`
SendChunk(ok) ==
    /\ fpc = "chunk"
    /\ IF ok
       THEN /\ wire' = Append(wire, ChunkMsg(file_info, ci))
            /\ sentLog' = Append(sentLog, [msg |-> ChunkMsg(file_info, ci), offset |-> ci])
            /\ ci' = ci + chunk_size
            /\ fpc' = IF ci + chunk_size < Len(file_info.data) THEN "chunk" ELSE "done"
            /\ progress' = [progress EXCEPT
                    !.send = update(@, FrameLen(ChunkMsg(file_info, ci)))]
       ELSE /\ fpc' = "failed"
            /\ UNCHANGED <<wire, sentLog, ci, progress>>
    /\ UNCHANGED <<fileBytes, file_info, rpc, rinfo, file_data, written, taken>>
    /\ UNCHANGED <<rxTimedOut, foreign, hubVars, clientVars, laterVars>>

\* lines 586-593 on the receiving peer: a file_info message opens the loop;
\* any other message read here is not a file_info and is dropped
RecvInfo ==
    /\ rpc = "idle"
    /\ wire # <<>>
    /\ wire' = Tail(wire)
    /\ IF Head(wire).type = "file_info"
       THEN /\ rinfo' = Head(wire) /\ file_data' = <<>> /\ rpc' = "chunks"
            /\ taken' = <<>>
            /\ progress' = [progress EXCEPT !.recv = TransferProgress(Head(wire).size)]
       ELSE UNCHANGED <<rinfo, file_data, rpc, taken, progress>>
    /\ handled' = IF Head(wire).type \in DispatchKinds
                  THEN handled \cup {Head(wire).type} ELSE handled
    /\ UNCHANGED <<fileBytes, fpc, file_info, ci, sentLog, written>>
    /\ UNCHANGED <<rxTimedOut, foreign, hubVars, clientVars, chunkOther>>
    /\ UNCHANGED <<others, dropped>>

\* lines 596-603: one message of the chunk loop
RecvChunk ==
    /\ rpc = "chunks"
    /\ wire # <<>>
    /\ wire' = Tail(wire)
    /\ IF Head(wire).type # "file_chunk"
       THEN rpc' = "apply" /\ UNCHANGED <<file_data, taken>>
       ELSE /\ file_data' = Append(file_data, Head(wire).chunk)
            /\ taken' = Append(taken, Head(wire).name)
            /\ rpc' = IF Head(wire).final THEN "applyFinal" ELSE "chunks"
    /\ progress' = [progress EXCEPT !.recv = update(@, JsonLen(Head(wire)))]
    /\ dropped' = IF Head(wire).type # "file_chunk"
                  THEN dropped \cup {Head(wire).type} ELSE dropped
    /\ UNCHANGED <<fileBytes, fpc, file_info, ci, sentLog, rinfo, written>>
    /\ UNCHANGED <<rxTimedOut, foreign, hubVars, clientVars, chunkOther>>
    /\ UNCHANGED <<others, handled>>

\* lines 597-599: nothing arrives within 0.1 s, the loop is left
RecvChunkTimeout ==
    /\ rpc = "chunks"
    /\ wire = <<>>
    /\ rpc' = "apply"
    /\ rxTimedOut' = TRUE
    /\ UNCHANGED <<fileBytes, fpc, file_info, ci, wire, sentLog, rinfo, file_data,
                   written, taken, progress>>
    /\ UNCHANGED <<foreign, hubVars, clientVars, laterVars>>

\* lines 606-616, set_clipboard_content on a detector that has seen nothing,
\* and _set_file_content
RecvApply ==
    /\ rpc \in {"apply", "applyFinal"}
    /\ LET content == FilesContent(<<[name |-> rinfo.name, size |-> rinfo.size]>>)
           bytes == DecodedFile(Join(file_data), rinfo.compressed)
       IN  IF file_data # <<>> /\ IsNew(content, NoHash)
           THEN /\ written' = [status |-> IF bytes.ok THEN "written" ELSE "failed",
                               bytes |-> bytes.bytes, chunks |-> Len(file_data),
                               byFinal |-> rpc = "applyFinal"]
                /\ progress' = [progress EXCEPT
                        !.save = IF bytes.ok
                                 THEN update(TransferProgress(rinfo.size), rinfo.size)
                                 ELSE TransferProgress(rinfo.size)]
           ELSE UNCHANGED <<written, progress>>
    /\ rpc' = "idle"
    /\ file_data' = <<>>
    /\ taken' = <<>>
    /\ rinfo' = NoMsg
    /\ UNCHANGED <<fileBytes, fpc, file_info, ci, wire, sentLog>>
    /\ UNCHANGED <<rxTimedOut, foreign, hubVars, clientVars, laterVars>>

\* a message that is not a file_chunk reaches the receiving peer, between the
\* messages of a transfer or not
OtherMessage(m) ==
    /\ others < MaxOther
    /\ others' = others + 1
    /\ wire' = Append(wire, m)
    /\ UNCHANGED <<fileBytes, fpc, file_info, ci, sentLog, rpc, rinfo, file_data,
                   written, rxTimedOut, taken, foreign, progress>>
    /\ UNCHANGED <<hubVars, clientVars, chunkOther, handled, dropped>>

\* a file_chunk message of another peer's transfer, for a file named "g",
\* reaches the receiving peer between the messages of this transfer
OtherPeerChunk(final) ==
    /\ foreign < MaxForeign
    /\ foreign' = foreign + 1
    /\ wire' = Append(wire, [type |-> "file_chunk", name |-> "g", size |-> 0,
                             compressed |-> FALSE, chunk |-> <<0, 0, 0, 0>>,
                             final |-> final])
    /\ UNCHANGED <<fileBytes, fpc, file_info, ci, sentLog, rpc, rinfo, file_data,
                   written, rxTimedOut, taken, progress>>
    /\ UNCHANGED <<hubVars, clientVars, laterVars>>

ChunkInit ==
    /\ fileBytes = <<>>
    /\ fpc = "pick"
    /\ file_info = NoEntry
    /\ ci = 0
    /\ wire = <<>>
    /\ sentLog = <<>>
    /\ rpc = "idle"
    /\ rinfo = NoMsg
    /\ file_data = <<>>
    /\ written = NothingWritten
    /\ rxTimedOut = FALSE
    /\ taken = <<>>
    /\ foreign = 0
    /\ progress = [send |-> NoProgress, recv |-> NoProgress, save |-> NoProgress]

ChunkNext ==
    \/ \E P \in Payloads : ChunkPick(P)
    \/ ProcessFile
    \/ \E ok \in BOOLEAN : SendInfo(ok)
    \/ \E ok \in BOOLEAN : SendChunk(ok)
    \/ RecvInfo
    \/ RecvChunk
    \/ RecvChunkTimeout
    \/ RecvApply
    \/ \E final \in BOOLEAN : OtherPeerChunk(final)

(***************************************************************************)
(* Claims about the chunked transfer                                        *)
(***************************************************************************)
ChunkEntries == SubSeq(sentLog, 2, Len(sentLog))
ChunkTexts == [k \in 1..Len(ChunkEntries) |-> ChunkEntries[k].msg.chunk]

\* C9: for a file of a file-set the send path emits one file_info message and
\* then file_chunk messages that cover the encoded payload in strictly
\* increasing offset order with no gap and no overlap, each at most chunk_size
\* long, with final set on the last chunk and on no other; a payload of length
\* L gives ceil(L / chunk_size) chunks, three with a shorter third one when L
\* is two and a half times chunk_size.
C9_ChunksCoverPayload ==
    LET data == file_info.data
        L == Len(data)
        n == Len(ChunkEntries)
    IN  sentLog # <<>> =>
        /\ sentLog[1].msg.type = "file_info"
        /\ sentLog[1].msg.size = Len(fileBytes)
        /\ sentLog[1].msg.compressed
        /\ \A k \in 1..n :
            LET e == ChunkEntries[k]
            IN  /\ e.msg.type = "file_chunk"
                /\ Len(e.msg.chunk) \in 1..chunk_size
                /\ e.offset = IF k = 1 THEN 0
                              ELSE ChunkEntries[k - 1].offset
                                   + Len(ChunkEntries[k - 1].msg.chunk)
                /\ e.offset + Len(e.msg.chunk) <= L
                /\ e.msg.chunk = SubSeq(data, e.offset + 1, e.offset + Len(e.msg.chunk))
                /\ e.msg.final <=> (e.offset + Len(e.msg.chunk) = L)
        /\ fpc = "done" =>
            /\ n = (L + chunk_size - 1) \div chunk_size
            /\ Join(ChunkTexts) = data
            /\ ChunkEntries[n].msg.final
        /\ (fpc = "done" /\ 2 * L = 5 * chunk_size) =>
            /\ n = 3
            /\ Len(ChunkEntries[3].msg.chunk) < chunk_size

\* a payload of two and a half chunks has been sent whole
C9_Witness ==
    /\ fpc = "done"
    /\ 2 * Len(file_info.data) = 5 * chunk_size
    /\ Len(ChunkEntries) = 3
    /\ ChunkEntries[3].msg.final

SendThrough == fpc \in {"done", "skipped"}
ReceiveThrough == rpc = "idle" /\ wire = <<>> /\ ~rxTimedOut

\* C10: for any byte payload P, once the send path is through with the file
\* and the receive path has read everything sent without a read timing out,
\* the payload reassembled from the chunks, base64-decoded and decompressed,
\* has been written and equals P.
C10_RoundTrip ==
    (SendThrough /\ ReceiveThrough) =>
        (written.status = "written" /\ written.bytes = fileBytes)

\* the same for the payloads that have at least one byte when no message of
\* another transfer comes in between, together with: what a reception ended
\* by the final chunk hands over always decodes to P
C10_RoundTripOfNonEmpty ==
    /\ (fileBytes # <<>> /\ SendThrough /\ ReceiveThrough /\ foreign = 0) =>
        (written.status = "written" /\ written.bytes = fileBytes)
    /\ (written.status # "none" /\ written.byFinal /\ foreign = 0) =>
        (written.status = "written" /\ written.bytes = fileBytes)

\* a payload sent in three chunks has been written on the receiving peer
C10_NonEmptyReached ==
    /\ written.status = "written"
    /\ written.chunks = 3
    /\ written.bytes = fileBytes

\* C11: a file_chunk message that arrives while no file_info session is open
\* for its filename is discarded: every chunk the receiver has taken into the
\* session it is serving carries the name of that session's file_info.
C11_NoChunkWithoutSession ==
    \A k \in DOMAIN taken : taken[k] = rinfo.name

SendComplete == fpc = "done"
RecvComplete == rpc = "applyFinal" /\ foreign = 0
SaveComplete == written.status = "written"

\* C12: every TransferProgress session that completes normally, on the send
\* path, on the chunk receive path and in _set_file_content, ends with
\* current_size, the sum of the update() deltas, equal to total_size.
C12_ProgressSumsToTotal ==
    /\ SendComplete => progress.send.current_size = progress.send.total_size
    /\ RecvComplete => progress.recv.current_size = progress.recv.total_size
    /\ SaveComplete => progress.save.current_size = progress.save.total_size

\* of the three sessions, the one of _set_file_content does sum to its total
C12_SaveSumsToTotal ==
    SaveComplete => progress.save.current_size = progress.save.total_size

\* C22: the reassembled payload is handed to the clipboard writer only after
\* a file_chunk with final=true has been received for the session
C22_DeliveredOnlyAfterFinal ==
    written.status # "none" => written.byFinal

\* what C22 says holds of a session whose every read returned in time and
\* brought a chunk
C22_FinalWhenNothingInterrupts ==
    (written.status # "none" /\ ~rxTimedOut /\ foreign = 0) => written.byFinal


(***************************************************************************)
(* The connection loops of the client: start_clipboard_sync (lines 520-641) *)
(* and start_audio_sync (lines 468-518); AudioServer.accept_clients         *)
(***************************************************************************)
\* failures in a row that are counted; more are counted as MaxFails
MaxFails == 4

\* line 33, in seconds
RECONNECT_DELAY == 5

Duties == {"clipboard", "audio"}

NoHist == [fails |-> 0, waited |-> 0, ended |-> FALSE, kind |-> "",
           sinceEnd |-> 0, gapKnown |-> FALSE, gap |-> 0, lost |-> 0]

AtMost(n, cap) == IF n > cap THEN cap ELSE n

\* an except clause that never sleeps
ReconnectSleepNone(isRunning) == 0

\* lines 633-636 and 509-512: `if self.running: ... time.sleep(RECONNECT_DELAY)`
ReconnectSleep(isRunning) == IF isRunning THEN RECONNECT_DELAY ELSE 0

\* lines 523 and 469: `while self.running` after the finally clause
AfterFinally(isRunning) == IF isRunning THEN "connecting" ELSE "exited"

\* the history after a connection has ended or an attempt has failed
Ended(h, kind) ==
    [h EXCEPT !.ended = TRUE, !.kind = kind, !.sinceEnd = 0,
              !.lost = IF kind = "lost" THEN AtMost(@ + 1, 2) ELSE @]

\* the history after d seconds of sleep
Slept(h, d) ==
    [h EXCEPT !.sinceEnd = AtMost(@ + d, RECONNECT_DELAY),
              !.waited = AtMost(@ + d, MaxFails * RECONNECT_DELAY)]

\* UnifiedClient.start (lines 645-654): running is set and the loop's thread
\* is started; `while self.running` is evaluated for the first time
ClientStart(d) ==
    /\ spc = "start"
    /\ duty' = d
    /\ client_running' = TRUE
    /\ spc' = AfterFinally(TRUE)
    /\ UNCHANGED <<link, rth, sth, hist, audio_running, acc>>
    /\ UNCHANGED <<hubVars, clientVars, chunkVars, kaVars, frameVars, newVars>>

\* lines 659-661: KeyboardInterrupt in the main thread
ClientStop ==
    /\ spc # "start"
    /\ client_running
    /\ client_running' = FALSE
    /\ UNCHANGED <<duty, spc, link, rth, sth, hist, audio_running, acc>>
    /\ UNCHANGED <<hubVars, clientVars, chunkVars, kaVars, frameVars, newVars>>

\* lines 526-529 and 472-475: the socket is made and connect() returns or
\* raises
SupConnect(ok) ==
    /\ spc = "connecting"
    /\ IF ok
       THEN /\ link' = "up"
            /\ spc' = "connected"
            /\ hist' = [hist EXCEPT !.fails = 0, !.waited = 0,
                                    !.gapKnown = hist.ended, !.gap = hist.sinceEnd]
            /\ rth' = IF duty = "audio" THEN "check" ELSE rth
            /\ sth' = IF duty = "audio" THEN "check" ELSE sth
       ELSE /\ link' = "open"
            /\ spc' = "except"
            /\ hist' = [Ended(hist, "failed") EXCEPT
                            !.fails = AtMost(hist.fails + 1, MaxFails),
                            !.waited = IF hist.fails = 0 THEN 0 ELSE hist.waited,
                            !.gapKnown = hist.ended, !.gap = hist.sinceEnd]
            /\ UNCHANGED <<rth, sth>>
    /\ UNCHANGED <<duty, client_running, audio_running, acc>>
    /\ UNCHANGED <<hubVars, clientVars, chunkVars, kaVars, frameVars, newVars>>

\* the hub closes the connection
ConnClosedByPeer ==
    /\ link = "up"
    /\ link' = "fin"
    /\ UNCHANGED <<duty, client_running, spc, rth, sth, hist, audio_running, acc>>
    /\ UNCHANGED <<hubVars, clientVars, chunkVars, kaVars, frameVars, newVars>>

\* the connection is reset
ConnReset ==
    /\ link \in {"up", "fin"}
    /\ link' = "rst"
    /\ UNCHANGED <<duty, client_running, spc, rth, sth, hist, audio_running, acc>>
    /\ UNCHANGED <<hubVars, clientVars, chunkVars, kaVars, frameVars, newVars>>

\* line 531: the inner loop of start_clipboard_sync finds running False
ClipLoopExit ==
    /\ spc = "connected" /\ duty = "clipboard"
    /\ ~client_running
    /\ spc' = "finally"
    /\ UNCHANGED <<duty, client_running, link, rth, sth, hist, audio_running, acc>>
    /\ UNCHANGED <<hubVars, clientVars, chunkVars, kaVars, frameVars, newVars>>

\* lines 536-538, 583 and 586 with 434-436, 446-447: on a closed or reset
\* connection the keep-alive or the send fails, or recv returns b"", and the
\* exception leaves the inner loop (lines 626-628)
ClipLoopError ==
    /\ spc = "connected" /\ duty = "clipboard"
    /\ client_running
    /\ link \in {"fin", "rst"}
    /\ spc' = "except"
    /\ hist' = Ended(hist, "lost")
    /\ UNCHANGED <<duty, client_running, link, rth, sth, audio_running, acc>>
    /\ UNCHANGED <<hubVars, clientVars, chunkVars, kaVars, frameVars, newVars>>

\* line 478: `while self.running` of receive_audio
AudioRecvTop ==
    /\ rth = "check"
    /\ rth' = IF client_running THEN "recv" ELSE "done"
    /\ UNCHANGED <<duty, client_running, spc, link, sth, hist, audio_running, acc>>
    /\ UNCHANGED <<hubVars, clientVars, chunkVars, kaVars, frameVars, newVars>>

\* line 480, which has no timeout: audio data arrives and recv returns it
AudioRecvData ==
    /\ rth = "recv"
    /\ link = "up"
    /\ rth' = "check"
    /\ UNCHANGED <<duty, client_running, spc, link, sth, hist, audio_running, acc>>
    /\ UNCHANGED <<hubVars, clientVars, chunkVars, kaVars, frameVars, newVars>>

\* lines 480-481: on a closed connection recv returns b"", which is not
\* written and not taken as the end of the connection
AudioRecvEos ==
    /\ rth = "recv"
    /\ link = "fin"
    /\ rth' = "check"
    /\ UNCHANGED <<duty, client_running, spc, link, sth, hist, audio_running, acc>>
    /\ UNCHANGED <<hubVars, clientVars, chunkVars, kaVars, frameVars, newVars>>

\* lines 483-486: on a reset connection recv raises
AudioRecvErr ==
    /\ rth = "recv"
    /\ link = "rst"
    /\ rth' = "done"
    /\ UNCHANGED <<duty, client_running, spc, link, sth, hist, audio_running, acc>>
    /\ UNCHANGED <<hubVars, clientVars, chunkVars, kaVars, frameVars, newVars>>

\* line 489: `while self.running` of send_audio
AudioSendTop ==
    /\ sth = "check"
    /\ sth' = IF client_running THEN "send" ELSE "done"
    /\ UNCHANGED <<duty, client_running, spc, link, rth, hist, audio_running, acc>>
    /\ UNCHANGED <<hubVars, clientVars, chunkVars, kaVars, frameVars, newVars>>

\* lines 491-497: the capture device is read (devOk: it does not raise) and
\* the data is sent; data sent on a connection the hub has closed is answered
\* by a reset, a send on a reset connection raises
AudioSendStep(devOk) ==
    /\ sth = "send"
    /\ IF ~devOk \/ link = "rst"
       THEN sth' = "done" /\ UNCHANGED link
       ELSE sth' = "check" /\ link' = IF link = "fin" THEN "rst" ELSE link
    /\ UNCHANGED <<duty, client_running, spc, rth, hist, audio_running, acc>>
    /\ UNCHANGED <<hubVars, clientVars, chunkVars, kaVars, frameVars, newVars>>

\* lines 505-506: both threads have ended; no exception is raised
SupJoin ==
    /\ spc = "connected" /\ duty = "audio"
    /\ rth = "done" /\ sth = "done"
    /\ spc' = "finally"
    /\ hist' = IF client_running THEN Ended(hist, "lost") ELSE hist
    /\ UNCHANGED <<duty, client_running, link, rth, sth, audio_running, acc>>
    /\ UNCHANGED <<hubVars, clientVars, chunkVars, kaVars, frameVars, newVars>>

\* lines 632-636 and 508-512
SupExcept ==
    /\ spc = "except"
    /\ hist' = Slept(hist, ReconnectSleep(client_running))
    /\ spc' = "finally"
    /\ UNCHANGED <<duty, client_running, link, rth, sth, audio_running, acc>>
    /\ UNCHANGED <<hubVars, clientVars, chunkVars, kaVars, frameVars, newVars>>

\* lines 637-641 and 514-518, then `while self.running`
SupFinally ==
    /\ spc = "finally"
    /\ link' = "closed"
    /\ spc' = AfterFinally(client_running)
    /\ rth' = "none"
    /\ sth' = "none"
    /\ UNCHANGED <<duty, client_running, hist, audio_running, acc>>
    /\ UNCHANGED <<hubVars, clientVars, chunkVars, kaVars, frameVars, newVars>>

\* AudioServer.accept_clients, line 73: `while self.running`
AcceptorTop ==
    /\ acc = "check"
    /\ acc' = IF audio_running THEN "accept" ELSE "done"
    /\ UNCHANGED <<duty, client_running, spc, link, rth, sth, hist, audio_running>>
    /\ UNCHANGED <<hubVars, clientVars, chunkVars, kaVars, frameVars, newVars>>

\* lines 75-78: accept(), which has no timeout, returns a new connection
AcceptorConn ==
    /\ acc = "accept"
    /\ acc' = "check"
    /\ UNCHANGED <<duty, client_running, spc, link, rth, sth, hist, audio_running>>
    /\ UNCHANGED <<hubVars, clientVars, chunkVars, kaVars, frameVars, newVars>>

\* AudioServer.stop, lines 130-131
AudioServerStop ==
    /\ audio_running
    /\ audio_running' = FALSE
    /\ UNCHANGED <<duty, client_running, spc, link, rth, sth, hist, acc>>
    /\ UNCHANGED <<hubVars, clientVars, chunkVars, kaVars, frameVars, newVars>>

ConnInit ==
    /\ duty = ""
    /\ client_running = FALSE
    /\ spc = "start"
    /\ link = "none"
    /\ rth = "none"
    /\ sth = "none"
    /\ hist = NoHist
    /\ audio_running = TRUE
    /\ acc = "check"

\* the steps each thread takes on its own: the connection loop, receive_audio,
\* send_audio and the hub's acceptor
SupStep ==
    \/ \E d \in Duties : ClientStart(d)
    \/ \E ok \in BOOLEAN : SupConnect(ok)
    \/ ClipLoopExit
    \/ ClipLoopError
    \/ SupJoin
    \/ SupExcept
    \/ SupFinally

RecvStep ==
    \/ AudioRecvTop
    \/ AudioRecvEos
    \/ AudioRecvErr

SendStep ==
    \/ AudioSendTop
    \/ \E devOk \in BOOLEAN : AudioSendStep(devOk)

AccStep == AcceptorTop

ThreadStep == SupStep \/ RecvStep \/ SendStep \/ AccStep

\* what the user, the peer and the network do
ConnEvent ==
    \/ ClientStop
    \/ ConnClosedByPeer
    \/ ConnReset
    \/ AudioRecvData
    \/ AcceptorConn
    \/ AudioServerStop

ConnNext == ThreadStep \/ ConnEvent


(***************************************************************************)
(* Claims about the connection loops                                        *)
(***************************************************************************)
\* C13: after n failed connection attempts in a row, while not stopped, the
\* loop makes its next attempt only after having waited at least n times
\* RECONNECT_DELAY in total, and failed attempts never end the loop: it has
\* exited only if running was set to False.
C13_RetriesAfterBackoff ==
    /\ spc = "connecting" =>
        hist.waited >= hist.fails * RECONNECT_DELAY
    /\ spc = "exited" => ~client_running

\* three attempts in a row have failed and the fourth is about to be made
C13_Witness ==
    /\ spc = "connecting"
    /\ client_running
    /\ hist.fails = 3
    /\ hist.waited = 3 * RECONNECT_DELAY

\* C14: whenever a connection attempt has failed or an established connection
\* has been lost, the loop waits RECONNECT_DELAY before its next connection
\* attempt: every attempt that follows one of the two is made at least
\* RECONNECT_DELAY later.
C14_BackoffBeforeEveryAttempt ==
    hist.gapKnown => hist.gap >= RECONNECT_DELAY

\* what C14 says holds of the clipboard loop, and of the audio loop after an
\* attempt that failed
C14_BackoffClipboardOrFailed ==
    (hist.gapKnown /\ (duty = "clipboard" \/ hist.lost = 0)) =>
        hist.gap >= RECONNECT_DELAY

Lost == spc = "connected" /\ link \in {"fin", "rst"} /\ client_running

\* C15: when the peer closes or resets an established connection, the loop
\* leaves Connected, closes the socket and eventually makes a new connection
\* attempt, unless stopped.
C15_LostConnectionIsReattempted ==
    Lost ~> (spc = "connecting" \/ ~client_running)

\* what C15 says holds of the clipboard loop
C15_ClipboardReattempts ==
    (Lost /\ duty = "clipboard") ~> (spc = "connecting" \/ ~client_running)

\* C17: once the stop flag is set every duty thread exits and releases its
\* socket without any further network event: the client's loop with its
\* threads, and the hub's audio acceptor.
C17_StopEndsEveryDuty ==
    /\ (spc # "start" /\ ~client_running) ~> (spc = "exited")
    /\ (~audio_running) ~> (acc = "done")

\* what C17 says holds of the clipboard loop
C17_StopEndsClipboardLoop ==
    (duty = "clipboard" /\ ~client_running) ~> (spc = "exited")


(***************************************************************************)
(* Keep-alive: the inner loop of start_clipboard_sync (lines 531-630)       *)
(***************************************************************************)
\* the time, in tenths of a second after the connection is made, up to which
\* the loop is followed
MaxKaTime == 40

\* line 32, in tenths of a second
KEEP_ALIVE_INTERVAL == 10
\* the 0.1 s read timeout of line 430 and the 0.1 s sleep of line 630
RecvTimeout == 1
LoopSleep == 1

\* how long sending a file-set or receiving a chunked file may take
TransferTimes == {3, 15}

\* line 536: `current_time - last_keep_alive >= self.keep_alive_interval`
KeepAliveDue(current_time, last) == current_time - last >= KEEP_ALIVE_INTERVAL

\* lines 533-539: the keep-alive, sent when it is due
KaTop ==
    /\ kpc = "top"
    /\ last_keep_alive' = IF KeepAliveDue(know, last_keep_alive) THEN know
                          ELSE last_keep_alive
    /\ kpc' = "poll"
    /\ UNCHANGED <<know, transfers>>
    /\ UNCHANGED <<hubVars, clientVars, chunkVars, connVars, frameVars, newVars>>

\* lines 541-542: the clipboard holds nothing new
KaPollIdle ==
    /\ kpc = "poll"
    /\ kpc' = "recv"
    /\ UNCHANGED <<know, last_keep_alive, transfers>>
    /\ UNCHANGED <<hubVars, clientVars, chunkVars, connVars, frameVars, newVars>>

\* lines 543-583: new content is sent; a file-set goes out chunk by chunk,
\* with a 0.01 s sleep after each, and takes d tenths of a second
KaPollSend(d) ==
    /\ kpc = "poll"
    /\ know + d <= MaxKaTime
    /\ know' = know + d
    /\ transfers' = 1
    /\ kpc' = "recv"
    /\ UNCHANGED last_keep_alive
    /\ UNCHANGED <<hubVars, clientVars, chunkVars, connVars, frameVars, newVars>>

\* line 586 with lines 430 and 459-460: nothing arrives within the timeout
KaRecvTimeout ==
    /\ kpc = "recv"
    /\ know + RecvTimeout <= MaxKaTime
    /\ know' = know + RecvTimeout
    /\ kpc' = "sleep"
    /\ UNCHANGED <<last_keep_alive, transfers>>
    /\ UNCHANGED <<hubVars, clientVars, chunkVars, connVars, frameVars, newVars>>

\* lines 586-590 and 618-619: a message is there; a keep_alive message
\* continues the loop without the sleep of line 630
KaRecvMessage(isKeepAlive) ==
    /\ kpc = "recv"
    /\ kpc' = IF isKeepAlive THEN "top" ELSE "sleep"
    /\ UNCHANGED <<know, last_keep_alive, transfers>>
    /\ UNCHANGED <<hubVars, clientVars, chunkVars, connVars, frameVars, newVars>>

\* lines 591-616: a file_info message is there and the chunk loop runs for d
\* tenths of a second
KaRecvFile(d) ==
    /\ kpc = "recv"
    /\ know + d <= MaxKaTime
    /\ know' = know + d
    /\ transfers' = 1
    /\ kpc' = "sleep"
    /\ UNCHANGED last_keep_alive
    /\ UNCHANGED <<hubVars, clientVars, chunkVars, connVars, frameVars, newVars>>

\* line 630
KaSleep ==
    /\ kpc = "sleep"
    /\ know + LoopSleep <= MaxKaTime
    /\ know' = know + LoopSleep
    /\ kpc' = "top"
    /\ UNCHANGED <<last_keep_alive, transfers>>
    /\ UNCHANGED <<hubVars, clientVars, chunkVars, connVars, frameVars, newVars>>

\* line 521 sets last_keep_alive to 0 and time.time() is far beyond it: the
\* first turn of the loop sends a keep-alive
KaInit ==
    /\ kpc = "top"
    /\ know = KEEP_ALIVE_INTERVAL
    /\ last_keep_alive = 0
    /\ transfers = 0

KaNext ==
    \/ KaTop
    \/ KaPollIdle
    \/ \E d \in TransferTimes : KaPollSend(d)
    \/ KaRecvTimeout
    \/ \E isKeepAlive \in BOOLEAN : KaRecvMessage(isKeepAlive)
    \/ \E d \in TransferTimes : KaRecvFile(d)
    \/ KaSleep

\* C16: while the connection is up a keep_alive message is emitted at least
\* once every KEEP_ALIVE_INTERVAL, whatever the loop is doing: at no time is
\* the last keep-alive older than the interval plus the one idle turn of the
\* loop (read timeout and sleep) by which the check can come late.
C16_KeepAliveEveryInterval ==
    know - last_keep_alive <= KEEP_ALIVE_INTERVAL + RecvTimeout + LoopSleep

\* what C16 says holds as long as no file-set is sent and no chunked file is
\* received
C16_KeepAliveWhileIdle ==
    transfers = 0 =>
        know - last_keep_alive <= KEEP_ALIVE_INTERVAL + RecvTimeout + LoopSleep

(***************************************************************************)
(* Framing: what each side writes for a message and reads back from bytes  *)
(***************************************************************************)

\* frames one sender writes
MaxFrames == 2

Directions == {"c2h", "h2c", "c2c"}

KeepAliveMsg == [type |-> "keep_alive", data |-> ""]
TextMsg(d) == [type |-> "text", data |-> d]
FrameMsgs == {KeepAliveMsg, TextMsg("a")}

NoValue == [type |-> "none", data |-> ""]

Quoted(c) == <<"\"", c, "\"">>

\* json.dumps of a message: an object of quoted keys and values, ':' between
\* key and value, no raw newline
Dumps(m) ==
    IF m.type = "keep_alive"
    THEN <<"{">> \o Quoted("t") \o <<":">> \o Quoted("k") \o <<"}">>
    ELSE <<"{">> \o Quoted("t") \o <<":">> \o Quoted("x") \o <<",">>
               \o Quoted("d") \o <<":">> \o Quoted(m.data) \o <<"}">>

\* json.loads: the message whose text this is, NoValue for JSONDecodeError
Loads(text) ==
    IF \E m \in FrameMsgs : Dumps(m) = text
    THEN CHOOSE m \in FrameMsgs : Dumps(m) = text
    ELSE NoValue

DigitChars == <<"0", "1", "2", "3", "4", "5", "6", "7", "8", "9">>

RECURSIVE Decimal(_)
\* str(n) for n >= 0
Decimal(n) ==
    IF n < 10 THEN <<DigitChars[n + 1]>>
    ELSE Decimal(n \div 10) \o <<DigitChars[(n % 10) + 1]>>

DigitValue(c) == CHOOSE d \in 0..9 : DigitChars[d + 1] = c

IsDigit(c) == \E d \in 0..9 : DigitChars[d + 1] = c

RECURSIVE StripColons(_)
\* str.strip(":")
StripColons(text) ==
    IF text = <<>> THEN text
    ELSE IF Head(text) = ":" THEN StripColons(Tail(text))
    ELSE IF text[Len(text)] = ":" THEN StripColons(SubSeq(text, 1, Len(text) - 1))
    ELSE text

RECURSIVE DecimalValue(_)
DecimalValue(text) ==
    IF text = <<>> THEN 0
    ELSE 10 * DecimalValue(SubSeq(text, 1, Len(text) - 1)) + DigitValue(text[Len(text)])

\* int(text): -1 stands for ValueError
ParseInt(text) ==
    IF text # <<>> /\ \A i \in DOMAIN text : IsDigit(text[i])
    THEN DecimalValue(text)
    ELSE -1

\* the client's frame: f"{len(serialized)}:{serialized}"
ClientFrame(m) == Decimal(Len(Dumps(m))) \o <<":">> \o Dumps(m)

\* the hub's frame to one recipient: the JSON and a newline, then OK and a newline
HubFrame(m) == Dumps(m) \o <<"\n">> \o <<"O", "K", "\n">>

Encode(dir, m) == IF dir = "h2c" THEN HubFrame(m) ELSE ClientFrame(m)

Has(text, c) == \E i \in DOMAIN text : text[i] = c

FirstIndex(text, c) == CHOOSE i \in DOMAIN text : text[i] = c /\ \A j \in 1..(i - 1) : text[j] # c

Drop(text, n) == SubSeq(text, n + 1, Len(text))

RECURSIVE FrameLines(_)
\* the complete lines of a buffer, in order: buffer.split('\n', 1) while a
\* newline is left
FrameLines(buf) ==
    IF ~Has(buf, "\n") THEN <<>>
    ELSE <<SubSeq(buf, 1, FirstIndex(buf, "\n") - 1)>>
             \o FrameLines(Drop(buf, FirstIndex(buf, "\n")))

RECURSIVE FrameRest(_)
\* what is left of a buffer after its complete lines
FrameRest(buf) ==
    IF ~Has(buf, "\n") THEN buf
    ELSE FrameRest(Drop(buf, FirstIndex(buf, "\n")))

RECURSIVE DecodedLines(_)
\* the messages of the lines that are not empty, not OK and are JSON
DecodedLines(lines) ==
    IF lines = <<>> THEN <<>>
    ELSE (IF Head(lines) # <<>> /\ Head(lines) # <<"O", "K">>
             /\ Loads(Head(lines)) # NoValue
          THEN <<Loads(Head(lines))>> ELSE <<>>) \o DecodedLines(Tail(lines))

\* the pair of ends is chosen once
FramePick(dir) ==
    /\ fdir = "none"
    /\ fdir' = dir
    /\ rxpc' = IF dir = "c2h" THEN "hub" ELSE "idle"
    /\ UNCHANGED <<fsent, pending, stream, header, fdata, remaining, hbuffer,
                   returned, ftimeouts>>
    /\ UNCHANGED <<hubVars, clientVars, chunkVars, connVars, kaVars, newVars>>

\* sendall of one framed message
FrameSend(m) ==
    /\ fdir # "none"
    /\ Len(fsent) < MaxFrames
    /\ fsent' = Append(fsent, m)
    /\ pending' = pending \o Encode(fdir, m)
    /\ UNCHANGED <<fdir, stream, rxpc, header, fdata, remaining, hbuffer,
                   returned, ftimeouts>>
    /\ UNCHANGED <<hubVars, clientVars, chunkVars, connVars, kaVars, newVars>>

\* the next segment reaches the receiver's socket
Arrive(n) ==
    /\ n \in 1..Len(pending)
    /\ stream' = stream \o SubSeq(pending, 1, n)
    /\ pending' = Drop(pending, n)
    /\ UNCHANGED <<fdir, fsent, rxpc, header, fdata, remaining, hbuffer,
                   returned, ftimeouts>>
    /\ UNCHANGED <<hubVars, clientVars, chunkVars, connVars, kaVars, newVars>>

\* _receive_data_with_progress is called: header = b""
RecvCall ==
    /\ rxpc = "idle"
    /\ rxpc' = "header"
    /\ header' = <<>>
    /\ UNCHANGED <<fdir, fsent, pending, stream, fdata, remaining, hbuffer,
                   returned, ftimeouts>>
    /\ UNCHANGED <<hubVars, clientVars, chunkVars, connVars, kaVars, newVars>>

\* the header loop over the bytes that are there: recv(1) until ':' is read,
\* then int(header.strip(":")); ValueError is re-raised
RecvHeader ==
    /\ rxpc = "header"
    /\ stream # <<>>
    /\ LET n == IF Has(stream, ":") THEN FirstIndex(stream, ":") ELSE Len(stream)
           h == header \o SubSeq(stream, 1, n)
           size == ParseInt(StripColons(h))
       IN /\ stream' = Drop(stream, n)
          /\ header' = h
          /\ IF ~Has(h, ":")
             THEN UNCHANGED <<rxpc, fdata, remaining>>
             ELSE IF size < 0
             THEN rxpc' = "raised" /\ UNCHANGED <<fdata, remaining>>
             ELSE /\ fdata' = <<>>
                  /\ remaining' = size
                  /\ rxpc' = "body"
    /\ UNCHANGED <<fdir, fsent, pending, hbuffer, returned, ftimeouts>>
    /\ UNCHANGED <<hubVars, clientVars, chunkVars, connVars, kaVars, newVars>>

\* the body loop: recv(min(remaining, 8192)) of what is there, and after the
\* last byte json.loads; JSONDecodeError returns None
RecvBody ==
    /\ rxpc = "body"
    /\ remaining = 0 \/ stream # <<>>
    /\ LET n == Min(remaining, Len(stream))
           d == fdata \o SubSeq(stream, 1, n)
       IN /\ stream' = Drop(stream, n)
          /\ fdata' = d
          /\ remaining' = remaining - n
          /\ IF remaining - n > 0
             THEN UNCHANGED <<rxpc, returned>>
             ELSE /\ rxpc' = "idle"
                  /\ returned' = IF Loads(d) # NoValue
                                 THEN Append(returned, Loads(d))
                                 ELSE returned
    /\ UNCHANGED <<fdir, fsent, pending, header, hbuffer, ftimeouts>>
    /\ UNCHANGED <<hubVars, clientVars, chunkVars, connVars, kaVars, newVars>>

\* recv raises socket.timeout: the call returns None, and header and data,
\* locals of the call, go with it
RecvTimedOut ==
    /\ rxpc \in {"header", "body"}
    /\ stream = <<>>
    /\ rxpc = "body" => remaining > 0
    /\ rxpc' = "idle"
    /\ ftimeouts' = IF rxpc = "body" \/ header # <<>>
                    THEN Min(ftimeouts + 1, 1) ELSE ftimeouts
    /\ UNCHANGED <<fdir, fsent, pending, stream, header, fdata, remaining,
                   hbuffer, returned>>
    /\ UNCHANGED <<hubVars, clientVars, chunkVars, connVars, kaVars, newVars>>

\* handle_client: recv(4096), buffer += chunk, then every complete line
HubRecv ==
    /\ rxpc = "hub"
    /\ stream # <<>>
    /\ stream' = <<>>
    /\ hbuffer' = FrameRest(hbuffer \o stream)
    /\ returned' = returned \o DecodedLines(FrameLines(hbuffer \o stream))
    /\ UNCHANGED <<fdir, fsent, pending, rxpc, header, fdata, remaining,
                   ftimeouts>>
    /\ UNCHANGED <<hubVars, clientVars, chunkVars, connVars, kaVars, newVars>>

FrameInit ==
    /\ fdir = "none"
    /\ fsent = <<>>
    /\ pending = <<>>
    /\ stream = <<>>
    /\ rxpc = "none"
    /\ header = <<>>
    /\ fdata = <<>>
    /\ remaining = 0
    /\ hbuffer = <<>>
    /\ returned = <<>>
    /\ ftimeouts = 0

FrameNext ==
    \/ \E dir \in Directions : FramePick(dir)
    \/ \E m \in FrameMsgs : FrameSend(m)
    \/ \E n \in 1..Len(pending) : Arrive(n)
    \/ RecvCall
    \/ RecvHeader
    \/ RecvBody
    \/ RecvTimedOut
    \/ HubRecv

\* the messages decoded so far are the first messages sent, the receiver has
\* raised nothing, and once every byte has arrived and been read, all of them
IsPrefixOf(a, b) == Len(a) <= Len(b) /\ SubSeq(b, 1, Len(a)) = a

AllRead == pending = <<>> /\ stream = <<>> /\ rxpc \in {"idle", "hub"}

Faithful ==
    /\ rxpc # "raised"
    /\ IsPrefixOf(returned, fsent)
    /\ AllRead => returned = fsent

\* C18: both ends use the same framing: what the client's send path encodes,
\* the hub's receive path decodes into the same message, and what the hub's
\* broadcast encodes, _receive_data_with_progress decodes into the same
\* message (no read timing out inside a frame)
C18_SameFramingBothEnds ==
    (fdir \in {"c2h", "h2c"} /\ ftimeouts = 0) => Faithful

\* C20: for any frames a sender writes and any split of the bytes into
\* segments with read timeouts between them, the calls of
\* _receive_data_with_progress return exactly the messages sent
C20_BytesRetainedAcrossTimeouts ==
    fdir = "c2c" => Faithful

\* what C20 says holds as long as no read times out inside a frame
C20_NoTimeoutInsideFrame ==
    (fdir = "c2c" /\ ftimeouts = 0) => Faithful

\* two frames of the client's framing decoded by the client, no timeout inside
C20_DecodesWholeFrames ==
    fdir = "c2c" /\ ftimeouts = 0 /\ Len(fsent) = 2 /\ AllRead /\ returned = fsent

(***************************************************************************)
(* Dispatch by message variant: the hub's handler (handle_client, lines     *)
(* 250-272) on every kind of line, and the peer's sync loop (lines 586-624) *)
(* on every kind of message                                                 *)
(***************************************************************************)
\* messages the peer dispatches in one behaviour
MaxDispatch == 1

\* the lines a peer may write to the hub: the two variants, a keep-alive, an
\* unknown variant, objects without a field of their variant, a JSON value
\* that is no object, and a line that is not JSON
RelayLines ==
    Lines \cup
      { [type |-> "keep_alive"],
        [type |-> "bogus", content |-> <<"a">>, filename |-> <<>>],
        [type |-> "text", filename |-> <<>>],
        [type |-> "file", content |-> <<"Q">>],
        NotObject,
        NotJson }

\* the line is an object of the text or file variant with its fields
WellFormedLine(line) ==
    /\ IsObject(line)
    /\ "type" \in DOMAIN line
    /\ line.type \in {"text", "file"} => "content" \in DOMAIN line
    /\ line.type = "file" => "filename" \in DOMAIN line

\* what _receive_data_with_progress hands to the sync loop
EmptyObject == [empty |-> TRUE]
ClientInbound ==
    { [type |-> "keep_alive"],
      [type |-> "text", data |-> <<"a">>],
      [type |-> "text"],
      [type |-> "file_info", name |-> "f", size |-> 1, compressed |-> TRUE],
      [type |-> "file_info", name |-> "f", compressed |-> TRUE],
      [type |-> "bogus", data |-> <<"a">>],
      EmptyObject,
      NotObject,
      NotJson }

\* the message is an object of a known variant with its fields
WellFormedMsg(m) ==
    /\ IsObject(m)
    /\ "type" \in DOMAIN m
    /\ m.type = "text" => "data" \in DOMAIN m
    /\ m.type = "file_info" => {"name", "size", "compressed"} \subseteq DOMAIN m

\* lines 586-624 for one message.  _receive_data_with_progress returns None
\* for text that is not JSON (lines 461-463) and `if data:` passes over None
\* and over an empty object; data.get on a value that is no object raises, and
\* so do data['size'] and data['name'] of a file_info without them (line 592):
\* lines 621-628 re-raise.  A text goes to set_clipboard_content, which
\* catches what it raises (lines 276-279); any other type falls through.
ClientOutcome(m) ==
    IF ~IsJson(m) \/ m = EmptyObject THEN "none"
    ELSE IF ~IsObject(m) THEN "raise"
    ELSE IF Get(m, "type", "") = "keep_alive" THEN "ignore"
    ELSE IF Get(m, "type", "") = "file_info"
    THEN IF "size" \in DOMAIN m /\ "name" \in DOMAIN m THEN "session" ELSE "raise"
    ELSE IF Get(m, "type", "") = "text" THEN "text"
    ELSE "nothing"

NoDispatch == [made |-> FALSE, msg |-> EmptyObject, outcome |-> "none"]

\* the sync loop receives m and dispatches it; a raise leaves the inner loop
\* and the connection is closed (lines 632-641)
ClientDispatch(m) ==
    /\ dconn = "connected"
    /\ dispatched < MaxDispatch
    /\ dispatched' = dispatched + 1
    /\ dlog' = [made |-> TRUE, msg |-> m, outcome |-> ClientOutcome(m)]
    /\ dconn' = IF ClientOutcome(m) = "raise" THEN "dropped" ELSE "connected"
    /\ UNCHANGED <<hubVars, clientVars, chunkVars, connVars, kaVars, frameVars, wireVars, audioVars, tailVars>>

\* lines 523-529: the outer loop connects again
ClientRedial ==
    /\ dconn = "dropped"
    /\ dconn' = "connected"
    /\ UNCHANGED <<dispatched, dlog>>
    /\ UNCHANGED <<hubVars, clientVars, chunkVars, connVars, kaVars, frameVars, wireVars, audioVars, tailVars>>

DispInit ==
    /\ dconn = "connected"
    /\ dispatched = 0
    /\ dlog = NoDispatch

\* the hub with peers that write every kind of line, while its own user's
\* clipboard is not broadcast, and the peer's dispatch
RelayNext ==
    \/ \E t \in LocalTexts : LocalCopy(t)
    \/ \E p \in Peers, m \in RelayLines : PeerSend(p, m)
    \/ \E p \in Peers : PeerClose(p)
    \/ AcceptCheck
    \/ \E p \in Peers : Accept(p)
    \/ \E p \in Peers : HandleRegister(p)
    \/ \E p \in Peers : HandlePoll(p)
    \/ \E p \in Peers : HandleRecvTimeout(p)
    \/ \E p \in Peers : HandleRecvError(p)
    \/ \E p \in Peers, k \in 1..MaxSends : HandleRecv(p, k)
    \/ \E p \in Peers : HandleApply(p)
    \/ \E p \in Peers : HandleRelay(p)
    \/ \E p \in Peers, sent \in BOOLEAN : HandleAck(p, sent)
    \/ \E p \in Peers : HandleFinallyDiscard(p)
    \/ \E p \in Peers : HandleFinallyClose(p)
    \/ \E m \in ClientInbound : ClientDispatch(m)
    \/ ClientRedial

\* the handler of p has applied a line and has not acknowledged it yet
Applying(p) == hpc[p] \in {"relay", "ack"}

\* C24: only messages of the text and file variants are applied to the
\* clipboard and relayed: the hub's clipboard is written, and a relay is
\* broadcast, for no line of another type, and the peer applies no message of
\* another type
C24_OnlyTextAndFileApplied ==
    /\ xorigin.peer # NoPeer => xorigin.type \in {"text", "file"}
    /\ (lastCall.made /\ lastCall.skip # NoPeer)
          => Get(lastCall.data, "type", "") \in {"text", "file"}
    /\ dlog.outcome \in {"text", "session"}
          => Get(dlog.msg, "type", "") \in {"text", "file_info"}

\* what C24 says of the peer holds
C24_PeerIgnoresOtherVariants ==
    dlog.outcome \in {"text", "session"}
        => Get(dlog.msg, "type", "") \in {"text", "file_info"}

\* C25: every inbound update the hub applies, text or file, is relayed to
\* every other registered peer: when the handler acknowledges an applied line
\* the broadcast of that line, skipping its sender, has been made
C25_AppliedIsRelayed ==
    \A p \in Peers :
        hpc[p] = "ack" =>
            /\ lastCall.made
            /\ lastCall.data = Head(buffer[p])
            /\ lastCall.skip = p

\* what C25 says holds of every line that is not of the file type
C25_TextIsRelayed ==
    \A p \in Peers :
        (hpc[p] = "ack" /\ Get(Head(buffer[p]), "type", "") # "file") =>
            /\ lastCall.made
            /\ lastCall.data = Head(buffer[p])
            /\ lastCall.skip = p

\* C26: a malformed inbound message is skipped and the connection stays:
\* the hub applies no malformed line, and the peer does not drop the
\* connection for a malformed message
C26_MalformedIsSkipped ==
    /\ \A p \in Peers : Applying(p) => WellFormedLine(Head(buffer[p]))
    /\ (dlog.made /\ ~WellFormedMsg(dlog.msg))
          => dlog.outcome # "raise"

(***************************************************************************)
(* The writes of the hub's threads to one peer's socket: the broadcasts of  *)
(* other handlers (broadcast_to_clients, lines 188-199, under clients_lock) *)
(* and the acknowledgement of the socket's own handler (line 265, under no  *)
(* lock).  sendall is a loop of send calls; each send puts some of the      *)
(* bytes left on the wire, all of them unless the send buffer is full.      *)
(***************************************************************************)
\* sendall calls on the socket in one behaviour
MaxWrites == 3
\* bytes of a broadcast line, and of "OK\n", scaled down
LineLen == 2
OkLen == 2

Broadcasters == {"b1", "b2"}
WThreads == Broadcasters \cup {"owner"}

\* the bytes of the write numbered id
WriteBytes(id, kind, n) == [i \in 1..n |-> [id |-> id, kind |-> kind, i |-> i]]

\* line 188: a handler other than the socket's own takes clients_lock, and
\* line 195: calls sendall(message) on the socket
BcastLine(t) ==
    /\ t \in Broadcasters
    /\ wpc[t] = "idle"
    /\ wlock = "free"
    /\ wcount < MaxWrites
    /\ wlock' = t
    /\ wcount' = wcount + 1
    /\ wrest' = [wrest EXCEPT ![t] = WriteBytes(wcount + 1, "line", LineLen)]
    /\ wpc' = [wpc EXCEPT ![t] = "line"]
    /\ UNCHANGED wbytes
    /\ UNCHANGED <<hubVars, clientVars, chunkVars, connVars, kaVars, frameVars, dispVars, audioVars, tailVars>>

\* line 196: sendall(b'OK\n'), still under the lock
BcastOk(t) ==
    /\ t \in Broadcasters
    /\ wpc[t] = "lineSent"
    /\ wcount' = wcount + 1
    /\ wrest' = [wrest EXCEPT ![t] = WriteBytes(wcount + 1, "ok", OkLen)]
    /\ wpc' = [wpc EXCEPT ![t] = "ok"]
    /\ UNCHANGED <<wlock, wbytes>>
    /\ UNCHANGED <<hubVars, clientVars, chunkVars, connVars, kaVars, frameVars, dispVars, audioVars, tailVars>>

\* the end of the with block: the lock is released
BcastRelease(t) ==
    /\ t \in Broadcasters
    /\ wpc[t] = "okSent"
    /\ wlock' = "free"
    /\ wpc' = [wpc EXCEPT ![t] = "idle"]
    /\ UNCHANGED <<wrest, wbytes, wcount>>
    /\ UNCHANGED <<hubVars, clientVars, chunkVars, connVars, kaVars, frameVars, dispVars, audioVars, tailVars>>

\* line 265: the socket's own handler calls sendall(b'OK\n'); it holds no lock
OwnerAck ==
    /\ wpc["owner"] = "idle"
    /\ wcount < MaxWrites
    /\ wcount' = wcount + 1
    /\ wrest' = [wrest EXCEPT !["owner"] = WriteBytes(wcount + 1, "ack", OkLen)]
    /\ wpc' = [wpc EXCEPT !["owner"] = "ack"]
    /\ UNCHANGED <<wlock, wbytes>>
    /\ UNCHANGED <<hubVars, clientVars, chunkVars, connVars, kaVars, frameVars, dispVars, audioVars, tailVars>>

\* one send call inside sendall: k of the bytes left go on the wire
WireSend(t, k) ==
    /\ wpc[t] \in {"line", "ok", "ack"}
    /\ k \in 1..Len(wrest[t])
    /\ wbytes' = wbytes \o SubSeq(wrest[t], 1, k)
    /\ wrest' = [wrest EXCEPT ![t] = SubSeq(@, k + 1, Len(@))]
    /\ wpc' = [wpc EXCEPT ![t] =
                  IF k < Len(wrest[t]) THEN @
                  ELSE IF @ = "line" THEN "lineSent"
                  ELSE IF @ = "ok" THEN "okSent"
                  ELSE "idle"]
    /\ UNCHANGED <<wlock, wcount>>
    /\ UNCHANGED <<hubVars, clientVars, chunkVars, connVars, kaVars, frameVars, dispVars, audioVars, tailVars>>

WireInit ==
    /\ wlock = "free"
    /\ wpc = [t \in WThreads |-> "idle"]
    /\ wrest = [t \in WThreads |-> <<>>]
    /\ wbytes = <<>>
    /\ wcount = 0

WireNext ==
    \/ \E t \in Broadcasters : BcastLine(t)
    \/ \E t \in Broadcasters : BcastOk(t)
    \/ \E t \in Broadcasters : BcastRelease(t)
    \/ OwnerAck
    \/ \E t \in WThreads, k \in 1..LineLen : WireSend(t, k)

\* the bytes of every write in `kinds` lie together on the wire
Whole(kinds) ==
    \A i, j, k \in DOMAIN wbytes :
        (i < j /\ j < k /\ wbytes[i].id = wbytes[k].id /\ wbytes[i].kind \in kinds)
            => wbytes[j].id = wbytes[i].id

\* C27: the writes of different hub threads to one peer's socket reach the
\* wire whole: the bytes of two writes are never interleaved
C27_WritesNeverInterleaved ==
    Whole({"line", "ok", "ack"})

\* what C27 says holds of the bytes the acknowledgement does not take part
\* in: two broadcasts never mix, and a line is followed by its OK
C27_BroadcastsSerialized ==
    \A i, j \in DOMAIN wbytes :
        (i < j /\ wbytes[i].kind # "ack" /\ wbytes[j].kind # "ack")
            => wbytes[i].id <= wbytes[j].id

(***************************************************************************)
(* The hub's audio relay: AudioServer (linux_listener.py, lines 54-139).    *)
(* Two threads, the acceptor (accept_clients) and the streamer              *)
(* (stream_audio), share self.clients, a list, and the statistics; no lock  *)
(* guards the list.                                                         *)
(***************************************************************************)
\* playback peers that may connect
NumAudioPeers == 2
\* frames the streamer captures in one behaviour
MaxAudioFrames == 2

ASocks == 1..NumAudioPeers

\* the elements of a list
Elems(list) == { list[i] : i \in DOMAIN list }

RECURSIVE ListRemove(_, _)
\* list.remove(x): the list without the first x
ListRemove(list, x) ==
    IF list = <<>> THEN <<>>
    ELSE IF Head(list) = x THEN Tail(list)
    ELSE <<Head(list)>> \o ListRemove(Tail(list), x)

\* a streamer that keeps the peers whose send failed
DeadNever(dead, client, sent) == dead

\* lines 89-93: dead_clients after the send to one client
DeadAfter(dead, client, sent) == IF sent THEN dead ELSE Append(dead, client)

NoFrame == [frame |-> 0, reg |-> {}, written |-> {}, failed |-> {}, gone |-> {}]

\* `while self.running:` of accept_clients
AudioAcceptTop ==
    /\ accpc = "top"
    /\ accpc' = IF arunning THEN "accept" ELSE "exited"
    /\ UNCHANGED <<arunning, areg, aclosed, abroken, aseen, astats, acclen,
                   stpc, sframe, sidx, sdead, slen, shist, sgone>>
    /\ UNCHANGED <<hubVars, clientVars, chunkVars, connVars, kaVars, frameVars, dispVars, wireVars, tailVars>>

\* lines 75-77: accept() returns the socket of peer s, which is appended
AudioAccept(s) ==
    /\ accpc = "accept"
    /\ s \notin aseen
    /\ aseen' = aseen \cup {s}
    /\ areg' = Append(areg, s)
    /\ accpc' = "len"
    /\ UNCHANGED <<arunning, aclosed, abroken, astats, acclen,
                   stpc, sframe, sidx, sdead, slen, shist, sgone>>
    /\ UNCHANGED <<hubVars, clientVars, chunkVars, connVars, kaVars, frameVars, dispVars, wireVars, tailVars>>

\* line 78: the argument len(self.clients) is evaluated
AudioAcceptLen ==
    /\ accpc = "len"
    /\ acclen' = Len(areg)
    /\ accpc' = "update"
    /\ UNCHANGED <<arunning, areg, aclosed, abroken, aseen, astats,
                   stpc, sframe, sidx, sdead, slen, shist, sgone>>
    /\ UNCHANGED <<hubVars, clientVars, chunkVars, connVars, kaVars, frameVars, dispVars, wireVars, tailVars>>

\* line 78 and ServerStats.update_clients (lines 35-39)
AudioAcceptUpdate ==
    /\ accpc = "update"
    /\ astats' = acclen
    /\ accpc' = "top"
    /\ UNCHANGED <<arunning, areg, aclosed, abroken, aseen, acclen,
                   stpc, sframe, sidx, sdead, slen, shist, sgone>>
    /\ UNCHANGED <<hubVars, clientVars, chunkVars, connVars, kaVars, frameVars, dispVars, wireVars, tailVars>>

\* `while self.running:` of stream_audio
StreamTop ==
    /\ stpc = "top"
    /\ stpc' = IF arunning THEN "read" ELSE "exited"
    /\ UNCHANGED <<arunning, areg, aclosed, abroken, aseen, astats, accpc,
                   acclen, sframe, sidx, sdead, slen, shist, sgone>>
    /\ UNCHANGED <<hubVars, clientVars, chunkVars, connVars, kaVars, frameVars, dispVars, wireVars, tailVars>>

\* lines 86-87: a frame is captured; when the device read raises, lines
\* 102-104 log it and break
StreamRead(captured) ==
    /\ stpc = "read"
    /\ IF captured
       THEN /\ sframe < MaxAudioFrames
            /\ sframe' = sframe + 1
            /\ sidx' = 1
            /\ sdead' = <<>>
            /\ shist' = [frame |-> sframe + 1, reg |-> Elems(areg),
                         written |-> {}, failed |-> {}, gone |-> sgone]
            /\ stpc' = "send"
       ELSE /\ stpc' = "exited"
            /\ UNCHANGED <<sframe, sidx, sdead, shist>>
    /\ UNCHANGED <<arunning, areg, aclosed, abroken, aseen, astats, accpc,
                   acclen, slen, sgone>>
    /\ UNCHANGED <<hubVars, clientVars, chunkVars, connVars, kaVars, frameVars, dispVars, wireVars, tailVars>>

\* lines 88-93: the next client of the list; the send raises on a socket
\* that is closed or whose peer has gone
StreamSend ==
    /\ stpc = "send"
    /\ sidx <= Len(areg)
    /\ LET client == areg[sidx]
           sent == client \notin aclosed /\ client \notin abroken
       IN  /\ sdead' = DeadAfter(sdead, client, sent)
           /\ shist' = IF sent
                       THEN [shist EXCEPT !.written = @ \cup {client}]
                       ELSE [shist EXCEPT !.failed = @ \cup {client}]
    /\ sidx' = sidx + 1
    /\ UNCHANGED <<arunning, areg, aclosed, abroken, aseen, astats, accpc,
                   acclen, stpc, sframe, slen, sgone>>
    /\ UNCHANGED <<hubVars, clientVars, chunkVars, connVars, kaVars, frameVars, dispVars, wireVars, tailVars>>

\* the for loop of line 88 ends
StreamSendDone ==
    /\ stpc = "send"
    /\ sidx > Len(areg)
    /\ stpc' = IF sdead = <<>> THEN "top" ELSE "remove"
    /\ UNCHANGED <<arunning, areg, aclosed, abroken, aseen, astats, accpc,
                   acclen, sframe, sidx, sdead, slen, shist, sgone>>
    /\ UNCHANGED <<hubVars, clientVars, chunkVars, connVars, kaVars, frameVars, dispVars, wireVars, tailVars>>

\* line 96
StreamRemove ==
    /\ stpc = "remove"
    /\ areg' = ListRemove(areg, Head(sdead))
    /\ stpc' = "len"
    /\ UNCHANGED <<arunning, aclosed, abroken, aseen, astats, accpc,
                   acclen, sframe, sidx, sdead, slen, shist, sgone>>
    /\ UNCHANGED <<hubVars, clientVars, chunkVars, connVars, kaVars, frameVars, dispVars, wireVars, tailVars>>

\* line 97: the argument len(self.clients) is evaluated
StreamLen ==
    /\ stpc = "len"
    /\ slen' = Len(areg)
    /\ stpc' = "update"
    /\ UNCHANGED <<arunning, areg, aclosed, abroken, aseen, astats, accpc,
                   acclen, sframe, sidx, sdead, shist, sgone>>
    /\ UNCHANGED <<hubVars, clientVars, chunkVars, connVars, kaVars, frameVars, dispVars, wireVars, tailVars>>

\* line 97 and ServerStats.update_clients
StreamUpdate ==
    /\ stpc = "update"
    /\ astats' = slen
    /\ stpc' = "close"
    /\ UNCHANGED <<arunning, areg, aclosed, abroken, aseen, accpc,
                   acclen, sframe, sidx, sdead, slen, shist, sgone>>
    /\ UNCHANGED <<hubVars, clientVars, chunkVars, connVars, kaVars, frameVars, dispVars, wireVars, tailVars>>

\* lines 98-101, and the next dead client or the next frame
StreamClose ==
    /\ stpc = "close"
    /\ aclosed' = aclosed \cup {Head(sdead)}
    /\ sgone' = sgone \cup {Head(sdead)}
    /\ sdead' = Tail(sdead)
    /\ stpc' = IF Tail(sdead) = <<>> THEN "top" ELSE "remove"
    /\ UNCHANGED <<arunning, areg, abroken, aseen, astats, accpc,
                   acclen, sframe, sidx, slen, shist>>
    /\ UNCHANGED <<hubVars, clientVars, chunkVars, connVars, kaVars, frameVars, dispVars, wireVars, tailVars>>

\* a connected playback peer goes away
AudioPeerGone(s) ==
    /\ s \in aseen
    /\ s \notin abroken
    /\ abroken' = abroken \cup {s}
    /\ UNCHANGED <<arunning, areg, aclosed, aseen, astats, accpc,
                   acclen, stpc, sframe, sidx, sdead, slen, shist, sgone>>
    /\ UNCHANGED <<hubVars, clientVars, chunkVars, connVars, kaVars, frameVars, dispVars, wireVars, tailVars>>

\* AudioServer.stop (lines 130-136)
AudioStop ==
    /\ arunning
    /\ arunning' = FALSE
    /\ aclosed' = aclosed \cup Elems(areg)
    /\ UNCHANGED <<areg, abroken, aseen, astats, accpc,
                   acclen, stpc, sframe, sidx, sdead, slen, shist, sgone>>
    /\ UNCHANGED <<hubVars, clientVars, chunkVars, connVars, kaVars, frameVars, dispVars, wireVars, tailVars>>

AudioInit ==
    /\ arunning = TRUE
    /\ areg = <<>>
    /\ aclosed = {}
    /\ abroken = {}
    /\ aseen = {}
    /\ astats = 0
    /\ accpc = "top"
    /\ acclen = 0
    /\ stpc = "top"
    /\ sframe = 0
    /\ sidx = 1
    /\ sdead = <<>>
    /\ slen = 0
    /\ shist = NoFrame
    /\ sgone = {}

AudioNext ==
    \/ AudioAcceptTop
    \/ \E s \in ASocks : AudioAccept(s)
    \/ AudioAcceptLen
    \/ AudioAcceptUpdate
    \/ StreamTop
    \/ \E captured \in BOOLEAN : StreamRead(captured)
    \/ StreamSend
    \/ StreamSendDone
    \/ StreamRemove
    \/ StreamLen
    \/ StreamUpdate
    \/ StreamClose
    \/ \E s \in ASocks : AudioPeerGone(s)
    \/ AudioStop

\* no thread is between a change of the audio registry and the update of the
\* statistics that follows it
AudioQuiet ==
    /\ accpc \in {"top", "accept", "exited"}
    /\ stpc \in {"top", "read", "send", "exited"}

\* C28: whenever no thread is in the middle of a registry mutation, the
\* statistics' count of audio peers is the size of the audio registry
C28_StatsMatchRegistry ==
    AudioQuiet => astats = Len(areg)

\* what C28 says holds as long as the streamer has removed no peer
C28_StatsMatchWithoutRemoval ==
    (AudioQuiet /\ sgone = {}) => astats = Len(areg)

\* the streamer has finished the send loop of the latest frame
FrameSent == shist.frame > 0 /\ stpc # "send"

\* the streamer is about to capture, or has stopped
BetweenFrames == stpc \in {"top", "read", "exited"}

\* C29: a captured frame is written to every peer of the audio registry; the
\* peers whose write failed are out of the registry and closed before the
\* next capture, and are never written to again; the others receive it
C29_FrameToEveryPeer ==
    /\ FrameSent => shist.reg \subseteq (shist.written \cup shist.failed)
    /\ FrameSent => (shist.reg \ shist.failed) \subseteq shist.written
    /\ (BetweenFrames /\ shist.frame > 0) =>
          /\ shist.failed \subseteq sgone
          /\ sgone \cap Elems(areg) = {}
          /\ sgone \subseteq aclosed
    /\ (shist.written \cup shist.failed) \cap shist.gone = {}

\* a second frame has been sent to the peer that is left after the write to
\* the other peer failed on the first frame and that peer was removed
C29_Witness ==
    /\ shist.frame = 2
    /\ FrameSent
    /\ shist.gone # {}
    /\ shist.written # {}
    /\ shist.failed = {}

\* C30: a failure of the audio device adapter never ends the relay duty:
\* while the server runs, the streamer has not left its loop
C30_StreamerSurvivesDeviceError ==
    stpc = "exited" => ~arunning

(***************************************************************************)
(* _process_files over a batch with files beyond the size limits           *)
(* (windows.py, lines 197-259).  Sizes are in units of 50 MB.               *)
(***************************************************************************)
\* files of one batch
MaxBatch == 7
\* file sizes run from 0 to MaxBatchSize units
MaxBatchSize == 3

\* MAX_FILE_SIZE (100 MB), in units of 50 MB
MAX_FILE_SIZE == 2
\* MAX_TOTAL_SIZE (500 MB), in units of 50 MB
MAX_TOTAL_SIZE == 10

\* one path of `files`: whether os.path.exists holds and os.path.getsize
BatchFiles ==
    { [exists |-> FALSE, size |-> 0] } \cup [exists : {TRUE}, size : 0..MaxBatchSize]

batchOther == <<hubVars, clientVars, chunkVars, connVars, kaVars, frameVars,
                dispVars, wireVars, audioVars, watchVars, dropVars>>

\* lines 199-201: the locals of a call
ProcessCall ==
    /\ bpc = "idle"
    /\ bpc' = "first"
    /\ bfiles' = <<>>
    /\ brest' = <<>>
    /\ total_size' = 0
    /\ processed_files' = <<>>
    /\ skipped_files' = <<>>
    /\ result_files' = <<>>
    /\ UNCHANGED batchOther

\* lines 204-222: one turn of `for file_path in files` with the next file e;
\* at the `break` of line 220, rest is what is left of `files`
FirstPassFile(e, rest) ==
    /\ bpc = "first"
    /\ Len(bfiles) < MaxBatch
    /\ bfiles' = Append(bfiles, e)
    /\ IF ~e.exists
       THEN /\ skipped_files' = Append(skipped_files, "File not found")
            /\ rest = <<>>
            /\ UNCHANGED <<bpc, brest, total_size, processed_files>>
       ELSE IF e.size > MAX_FILE_SIZE
       THEN /\ skipped_files' = Append(skipped_files, "File too large")
            /\ rest = <<>>
            /\ UNCHANGED <<bpc, brest, total_size, processed_files>>
       ELSE /\ total_size' = total_size + e.size
            /\ IF total_size + e.size > MAX_TOTAL_SIZE
               THEN /\ skipped_files' = Append(skipped_files, "Total size limit exceeded")
                    /\ Len(bfiles) + 1 + Len(rest) <= MaxBatch
                    /\ brest' = rest
                    /\ bpc' = "second"
                    /\ UNCHANGED processed_files
               ELSE /\ processed_files' = Append(processed_files, e)
                    /\ rest = <<>>
                    /\ UNCHANGED <<bpc, brest, skipped_files>>
    /\ UNCHANGED result_files
    /\ UNCHANGED batchOther

\* line 204: `files` is exhausted
FirstPassEnd ==
    /\ bpc = "first"
    /\ bpc' = "second"
    /\ UNCHANGED <<bfiles, brest, total_size, processed_files, skipped_files, result_files>>
    /\ UNCHANGED batchOther

\* lines 229-255: the second pass over processed_files; an empty file raises
\* at line 239 and is left out
SecondPass ==
    /\ bpc = "second"
    /\ result_files' = KeepProcessed(processed_files)
    /\ bpc' = "done"
    /\ UNCHANGED <<bfiles, brest, total_size, processed_files, skipped_files>>
    /\ UNCHANGED batchOther

\* lines 257-259: return
ProcessReturn ==
    /\ bpc = "done"
    /\ bpc' = "idle"
    /\ UNCHANGED <<bfiles, brest, total_size, processed_files, skipped_files, result_files>>
    /\ UNCHANGED batchOther

BatchInit ==
    /\ bpc = "idle"
    /\ bfiles = <<>>
    /\ brest = <<>>
    /\ total_size = 0
    /\ processed_files = <<>>
    /\ skipped_files = <<>>
    /\ result_files = <<>>

BatchNext ==
    \/ ProcessCall
    \/ \E e \in BatchFiles, rest \in SeqsUpTo(BatchFiles, 1) : FirstPassFile(e, rest)
    \/ FirstPassEnd
    \/ SecondPass
    \/ ProcessReturn

\* the whole of `files` of the call
BatchGiven == bfiles \o brest

\* the files of a batch that exist and fit within both limits, each taken on
\* its own: total is the size of the files included before
RECURSIVE WithinBothLimits(_, _)
WithinBothLimits(files, total) ==
    IF files = <<>> THEN <<>>
    ELSE LET e == Head(files)
         IN  IF e.exists /\ e.size <= MAX_FILE_SIZE /\ total + e.size <= MAX_TOTAL_SIZE
             THEN <<e>> \o WithinBothLimits(Tail(files), total + e.size)
             ELSE WithinBothLimits(Tail(files), total)

\* C31: a file above the per-file maximum, or one that would take the batch
\* above the batch maximum, is skipped on its own: once the first pass is
\* over, the files kept are exactly those of the batch that fit within both
\* limits, the ones after a skipped file included
C31_LaterFilesStillConsidered ==
    bpc \in {"second", "done"} => processed_files = WithinBothLimits(BatchGiven, 0)

\* C31, the part the code keeps: while the batch maximum is not reached, a
\* missing or oversize file is skipped on its own and the later files are kept
C31_OversizeSkippedAlone ==
    (bpc \in {"second", "done"} /\ total_size <= MAX_TOTAL_SIZE)
        => processed_files = WithinBothLimits(BatchGiven, 0)

\* C31: a batch with an oversize file followed by a file that was kept
C31_OversizeThenKept ==
    /\ bpc = "done"
    /\ \E i \in DOMAIN bfiles :
          /\ bfiles[i].size > MAX_FILE_SIZE
          /\ \E j \in DOMAIN processed_files : processed_files[j].size = 1
          /\ i < Len(bfiles) /\ bfiles[Len(bfiles)] = [exists |-> TRUE, size |-> 1]

\* C31: the loop has stopped at the batch maximum with a file left that fits
C31_FittingFileLeftOut ==
    /\ bpc = "done"
    /\ brest # <<>>
    /\ processed_files # WithinBothLimits(BatchGiven, 0)


(***************************************************************************)
(* The watch of handle_client, one per peer (linux_listener.py, lines       *)
(* 219-236): how often one change of the hub's clipboard is broadcast       *)
(***************************************************************************)
WatchInit == localSent = [q \in Peers |-> 0]

\* C32: one change of the hub's local clipboard is broadcast at most once:
\* no peer is written more than one text line for it, whichever way the
\* handler threads interleave
C32_ChangeBroadcastOnce ==
    \A q \in Peers : localSent[q] <= 1

\* C32: a change has been broadcast while two peers were registered
C32_BroadcastToTwo ==
    /\ \A q \in Peers : localSent[q] = 1
    /\ copies = 1

DropInit ==
    /\ others = 0
    /\ handled = {}
    /\ dropped = {}

(***************************************************************************)
(* Messages of other kinds during a chunked receive (windows.py, lines      *)
(* 586-619)                                                                 *)
(***************************************************************************)
MixedNext ==
    \/ ChunkNext
    \/ \E m \in OtherMsgs : OtherMessage(m)

\* C33: every complete frame the peer reads is dispatched by its type: the
\* chunk loop never reads a text, file_info or keep_alive message and leaves
\* it undispatched
C33_NoFrameDropped ==
    dropped = {}

\* C33, the part the code keeps: while no file is being received, a message
\* of another kind is taken by the sync loop and dispatched by its type
C33_DispatchedOutsideTransfer ==
    [][ (rpc = "idle" /\ wire # <<>> /\ wire' = Tail(wire)
            /\ Head(wire).type \in DispatchKinds)
        => (Head(wire).type \in handled' /\ dropped' = dropped) ]_<<chunkVars, dropVars>>

\* C33: a text message has been dispatched by the sync loop
C33_TextDispatched ==
    "text" \in handled

vars == <<hubVars, clientVars, chunkVars, laterVars>>
Init == HubInit /\ ClientInit /\ ChunkInit /\ ConnInit /\ KaInit /\ FrameInit
        /\ DispInit /\ WireInit /\ AudioInit /\ BatchInit
        /\ WatchInit /\ DropInit
Next == HubNext
Spec == Init /\ [][Next]_vars
NextClient == ClientNext
SpecClient == Init /\ [][NextClient]_vars
NextChunk == ChunkNext
SpecChunk == Init /\ [][NextChunk]_vars
NextKeepAlive == KaNext
SpecKeepAlive == Init /\ [][NextKeepAlive]_vars
NextConn == ConnNext
SpecConn == Init /\ [][NextConn]_vars
\* every thread that can take a step on its own takes one; nothing is assumed
\* of the user, the peer and the network
NextFrame == FrameNext
SpecFrame == Init /\ [][NextFrame]_vars

NextRelay == RelayNext
SpecRelay == Init /\ [][NextRelay]_vars

NextWire == WireNext
SpecWire == Init /\ [][NextWire]_vars

NextAudio == AudioNext
SpecAudio == Init /\ [][NextAudio]_vars
NextMixed == MixedNext
SpecMixed == Init /\ [][NextMixed]_vars
NextBatch == BatchNext
SpecBatch == Init /\ [][NextBatch]_vars

SpecConnFair ==
    /\ Init /\ [][NextConn]_vars
    /\ WF_vars(SupStep) /\ WF_vars(RecvStep) /\ WF_vars(SendStep) /\ WF_vars(AccStep)

====
